---------------------------- MODULE Spec2Model ----------------------------
(***************************************************************************)
(* Model of the transfer engine of websitebackupmanager:                   *)
(*   backup_manager.py  SSHBackupManager / FTPBackupManager (Spec)         *)
(*   cloud_storage.py   OneDrive / Dropbox / Google Drive managers         *)
(*                      (SpecCloud); SpecAll is either of the two          *)
(* Text is modelled as sequences of one-character strings so that          *)
(* str.lower() and the substring test of FTPBackupManager.connect are      *)
(* computed, not assumed.  The Turkish letters of the log messages are     *)
(* written without diacritics; none of them takes part in a marker.        *)
(***************************************************************************)
EXTENDS Integers, Sequences, FiniteSets, TLC

(* ------------------------------ bounds --------------------------------- *)
\* number of remote entries below the remote root (heap-shaped tree)
NumNodes == 3
\* largest remote file size, in bytes
MaxSize == 1

(* ------------------------------- text ---------------------------------- *)
UpperChars == <<"A","B","C","D","E","F","G","H","I","J","K","L","M","N","O","P","Q","R","S","T","U","V","W","X","Y","Z">>
LowerChars == <<"a","b","c","d","e","f","g","h","i","j","k","l","m","n","o","p","q","r","s","t","u","v","w","x","y","z">>

\* str.lower() on one character
LowerChar(c) ==
  IF \E i \in DOMAIN UpperChars : UpperChars[i] = c
  THEN LowerChars[CHOOSE i \in DOMAIN UpperChars : UpperChars[i] = c]
  ELSE c

\* str.lower()
StrLower(s) == [i \in DOMAIN s |-> LowerChar(s[i])]

\* needle in hay (Python's substring test)
StrIn(needle, hay) ==
  \E i \in 0..(Len(hay) - Len(needle)) :
     \A j \in 1..Len(needle) : hay[i + j] = needle[j]

\* the five markers of FTPBackupManager.connect, line 199
TlsMarkers ==
  { <<"4","2","1">>, <<"t","l","s">>, <<"s","s","l">>,
    <<"s","e","c","u","r","e">>, <<"c","l","e","a","r","t","e","x","t">> }

\* the exception texts str(e) a server or the socket layer may produce
T421TLS == <<"4","2","1"," ","T","L","S"," ","r","e","q","u","i","r","e","d">>
T421 == <<"4","2","1"," ","b","u","s","y">>
TTLS == <<"T","L","S"," ","n","e","e","d","e","d">>
TSSL == <<"5","3","4"," ","U","s","e"," ","S","S","L">>
TSecure == <<"5","5","0"," ","S","e","c","u","r","e"," ","o","n","l","y">>
TCleartext == <<"C","l","e","a","r","t","e","x","t"," ","r","e","f","u","s","e","d">>
TLogin == <<"5","3","0"," ","L","o","g","i","n"," ","i","n","c","o","r","r","e","c","t">>
TTimedOut == <<"t","i","m","e","d"," ","o","u","t">>
THandshake == <<"b","a","d"," ","h","a","n","d","s","h","a","k","e">>
NTimeoutError == <<"T","i","m","e","o","u","t","E","r","r","o","r">>

\* exceptions the FTPS attempt may raise: the class the except clauses
\* dispatch on, type(e).__name__ and str(e)
FtpsFailures ==
  { [type |-> "error_temp", name |-> <<>>, text |-> T421TLS],
    [type |-> "error_temp", name |-> <<>>, text |-> T421],
    [type |-> "error_perm", name |-> <<>>, text |-> TTLS],
    [type |-> "error_perm", name |-> <<>>, text |-> TSSL],
    [type |-> "error_perm", name |-> <<>>, text |-> TSecure],
    [type |-> "error_perm", name |-> <<>>, text |-> TCleartext],
    [type |-> "error_perm", name |-> <<>>, text |-> TLogin],
    [type |-> "SSLError",   name |-> <<>>, text |-> THandshake],
    [type |-> "other",      name |-> NTimeoutError, text |-> TTimedOut] }

\* the message _connect_ftps returns for exception e (lines 259-274)
FtpsErrorMsg(e) ==
  CASE e.type = "error_perm" ->
         <<"F","T","P","S"," ","y","e","t","k","i"," ","h","a","t","a","s","i",":"," ">> \o e.text
    [] e.type = "error_temp" ->
         <<"F","T","P","S"," ","g","e","c","i","c","i"," ","h","a","t","a",":"," ">> \o e.text
    [] e.type = "SSLError" ->
         <<"S","S","L"," ","h","a","t","a","s","i",":"," ">> \o e.text
    [] OTHER ->
         <<"F","T","P","S"," ","b","a","g","l","a","n","t","i"," ","h","a","t","a","s","i",":"," ">>
           \o e.name \o <<":"," ">> \o e.text

\* exceptions the plaintext attempt may raise, by except clause (lines 291-315)
PlainFailures == {"error_perm", "error_temp", "timeout", "other"}

\* the message _connect_plain_ftp returns for each of them
PlainErrorMsg(t) ==
  CASE t = "error_perm" -> <<"FTP yetki hatasi: ", "530 Login incorrect">>
    [] t = "error_temp" -> <<"FTP sunucusu TLS gerektiriyor: ", "421 busy">>
    [] t = "timeout"    -> <<"FTP baglanti zaman asimi - sunucu yanit vermiyor: ", "host:port">>
    [] OTHER            -> <<"FTP baglanti hatasi: ", "EOFError", ": ", "">>

NoMsg == <<>>
NoRet == [ok |-> FALSE, msg |-> NoMsg, set |-> FALSE]
Ret(ok, msg) == [ok |-> ok, msg |-> msg, set |-> TRUE]

(* ---------------------- state of the backup manager --------------------- *)
VARIABLES
  proto,       \* "SSH" | "FTP": the class get_backup_manager built
  cfg,         \* SSH: [key, keyfile, password]: what __init__ was given
  pc,          \* position of the running backup() call
  client,      \* SSHBackupManager.client: "None" | "obj"
  sftp,        \* SSHBackupManager.sftp:   "None" | "obj"
  ftp,         \* FTPBackupManager.ftp:    "None" | "ftps" | "plain"
  sock,        \* state of each underlying connection: "none" | "open" | "closed"
  use_tls,     \* FTPBackupManager.use_tls
  ftps_error,  \* FTPBackupManager.ftps_error ("None" as <<>>)
  ftpsRet,     \* what _connect_ftps returned
  plainRet,    \* what _connect_plain_ftp returned
  connRet,     \* what connect() returned
  plainCalls,  \* number of calls of _connect_plain_ftp
  localRoot,   \* local_backup_path: "absent" | "writable" | "readonly"
  madeDirs,    \* local directories created by download_directory (0 = snapshot)
  localFiles,  \* bytes of each local file, -1 when the file does not exist
  stack,       \* frames of download_directory, innermost last
  listed,      \* what the remote listing said of each entry it returned
  outcome,     \* what happened to each remote entry
  ret,         \* what backup() returned, or that it raised
  ftp_cwd,     \* the working directory of the FTP session on the server (Home
               \* when the session begins and when there is none)
  original_dir, \* the local original_dir of the listing in progress
  sent,        \* per remote entry: the listing and fetch commands sent for it
  disconnects, \* calls of disconnect() so far
  discRaised,  \* an exception left a call of disconnect()
  wire,        \* the steps the connect() in progress took against the
               \* server, in order, each with whether it succeeded
  progress     \* the calls of progress_callback so far: [id, size]

mgrVars  == <<client, sftp, ftp, sock, use_tls, ftps_error>>
connVars == <<ftpsRet, plainRet, connRet, plainCalls>>
fsVars   == <<localRoot, madeDirs, localFiles>>
walkVars == <<stack, listed, outcome>>
cwdVars  == <<ftp_cwd, original_dir>>
discVars == <<disconnects, discRaised>>
hvars    == <<wire, progress>>
bvars    == <<proto, cfg, pc, mgrVars, connVars, fsVars, walkVars, ret,
              cwdVars, sent, discVars, hvars>>

Nodes == 1..NumNodes
\* calls of disconnect() in one scenario
MaxDisconnects == 2
\* no command was sent for an entry yet
NoneSent == [mlsd |-> 0, list |-> 0, listdir |-> 0, retr |-> 0]
\* working directories of the FTP session: the one the login starts in, the
\* root, a directory of the remote tree; Unset: no listing is using the local
Home == [at |-> "home", n |-> 0]
Slash == [at |-> "/", n |-> 0]
DirPath(d) == [at |-> "dir", n |-> d]
Unset == [at |-> "unset", n |-> 0]
NoEntry == [kind |-> "none", size |-> 0]
NoResult == [state |-> "running", success |-> FALSE, msg |-> NoMsg,
             file_count |-> 0, total_bytes |-> 0]
\* one step of connect(): the call made on the library object, the attempt
\* it belongs to (SSH: the credential handed over), whether it succeeded
Step(cmd, via, ok) == [cmd |-> cmd, via |-> via, ok |-> ok]
Returned(s, m, fc, tb) == [state |-> "returned", success |-> s, msg |-> m,
                           file_count |-> fc, total_bytes |-> tb]

\* SSHBackupManager.__init__ / FTPBackupManager.__init__ and the local disk
BInit ==
  /\ proto \in {"SSH", "FTP"}
  /\ cfg \in [key : BOOLEAN, keyfile : BOOLEAN, password : BOOLEAN]
  /\ (proto = "FTP" => cfg = [key |-> FALSE, keyfile |-> FALSE, password |-> TRUE])
  /\ (~cfg.key => ~cfg.keyfile)
  /\ pc = "start"
  /\ client = "None" /\ sftp = "None" /\ ftp = "None"
  /\ sock = [ssh |-> "none", ftps |-> "none", plain |-> "none"]
  /\ use_tls = FALSE
  /\ ftps_error = NoMsg
  /\ ftpsRet = NoRet /\ plainRet = NoRet /\ connRet = NoRet
  /\ plainCalls = 0
  /\ localRoot \in {"absent", "writable", "readonly"}
  /\ madeDirs = {}
  /\ localFiles = [n \in Nodes |-> -1]
  /\ stack = <<>>
  /\ listed = [n \in Nodes |-> NoEntry]
  /\ outcome = [n \in 0..NumNodes |-> "none"]
  /\ ret = NoResult
  /\ ftp_cwd = Home
  /\ original_dir = Unset
  /\ sent = [n \in 0..NumNodes |-> NoneSent]
  /\ disconnects = 0
  /\ discRaised = FALSE
  /\ wire = <<>>
  /\ progress = <<>>


(* ----------------------- state of the cloud manager --------------------- *)
\* operations one thread runs one after the other in the sequential scenario
MaxOps == 2
\* the clock runs from 0 to MaxTime
MaxTime == 3
\* largest file, in chunks of the provider's chunk size above the smallest
\* large file
MaxChunks == 1
\* requests of one operation that are recorded; a longer operation stops there
MaxCalls == 5

\* line 298, mutated: a file of exactly 4 MiB goes through a session
OD_Threshold_Below == 4 * 1024 * 1024 - 1
\* lines 298, 333: OneDrive threshold and chunk size
OD_Threshold == 4 * 1024 * 1024
OD_ChunkSize == 10 * 1024 * 1024
\* lines 461, 488: Dropbox threshold and chunk size
DBX_Threshold == 150 * 1024 * 1024
DBX_ChunkSize == 50 * 1024 * 1024

Providers == {"google_drive", "onedrive", "dropbox"}
\* the callers: one in the sequential scenario, the two concurrent uploads of
\* the concurrent one
Threads == {1, 2}

VARIABLES
  provider,      \* the class get_cloud_manager built ("none": no manager)
  mode,          \* "sequential": one caller; "concurrent": two callers
  access_token,  \* CloudStorageBase.access_token, a serial number
  refresh_token, \* CloudStorageBase.refresh_token: -1 for None, else a serial number
  token_expiry,  \* CloudStorageBase.token_expiry: [form, at]
  now,           \* datetime.utcnow()
  issued,        \* tokens the provider's token endpoint has issued
  up,            \* per thread: the running operation and its local variables
  refreshSeen,   \* the expiry each refresh call was decided on, in call order
  opsDone        \* operations started so far

cvars == <<provider, mode, access_token, refresh_token, token_expiry, now,
           issued, up, refreshSeen, opsDone>>

\* what one call of ensure_valid_token read: nothing yet
NoSeen == [done |-> FALSE, form |-> "None", at |-> 0, now |-> 0, rt |-> FALSE]
\* a thread outside any operation.  offset and fpos are the local variable
\* offset and the read position of the open file of _upload_large_file.
IdleThread ==
  [pc |-> "idle", op |-> "none", file_size |-> 0, offset |-> 0,
   fpos |-> 0, checked |-> FALSE, seen |-> NoSeen, refreshes |-> 0,
   calls |-> <<>>, result |-> "none"]

Threshold(p) == IF p = "dropbox" THEN DBX_Threshold ELSE OD_Threshold
ChunkSize(p) == IF p = "dropbox" THEN DBX_ChunkSize ELSE OD_ChunkSize

\* a zipped snapshot of 220 MiB
Archive220 == 220 * 1024 * 1024
\* os.path.getsize(local_path) of the local files offered to upload_file
FileSizes(p) ==
  IF p = "google_drive"
  THEN {0, OD_ChunkSize}
  ELSE {0, Threshold(p), Threshold(p) + 1}
         \cup {(Threshold(p) \div ChunkSize(p) + k) * ChunkSize(p) + r :
                  k \in 1..MaxChunks, r \in {0, 1}}
         \cup (IF p = "dropbox" THEN {Archive220} ELSE {})

\* __init__ and set_tokens (lines 22-33) of a manager
CInit ==
  /\ provider \in Providers
  /\ mode \in {"sequential", "concurrent"}
  /\ access_token = 0
  /\ refresh_token \in {-1, 0}
  /\ now = 1
  /\ token_expiry \in
       {[form |-> "None", at |-> 0]}
         \cup [form : {"str", "datetime"}, at : {0, 1, MaxTime}]
  /\ issued = 0
  /\ up = [t \in Threads |-> IdleThread]
  /\ refreshSeen = <<>>
  /\ opsDone = 0

\* no cloud manager was built
CIdle ==
  /\ provider = "none"
  /\ mode = "sequential"
  /\ access_token = 0
  /\ refresh_token = -1
  /\ now = 1
  /\ token_expiry = [form |-> "None", at |-> 0]
  /\ issued = 0
  /\ up = [t \in Threads |-> IdleThread]
  /\ refreshSeen = <<>>
  /\ opsDone = 0

(* ------------------------ state of concurrent runs ---------------------- *)
\* clock ticks in one second: strftime('%Y%m%d_%H%M%S') drops what is below
TicksPerSecond == 2
\* time_utils.py line 17: _NTP_SYNC_INTERVAL = 3600 seconds, in ticks
NTP_SYNC_INTERVAL == 3600 * TicksPerSecond
\* the system clock is followed for MaxClock ticks, from the start and from
\* one synchronisation interval later
MaxClock == 3
\* the backup runs of one site: a manual one (app.py start_backup) and a
\* scheduled one (scheduler.py), each on a manager of its own
RunIds == {1, 2}

VARIABLES
  sysclock,      \* time.time(), in ticks
  ntp_offset,    \* time_utils._ntp_offset: NoOffset (None) or ticks
  ntp_last_sync, \* time_utils._ntp_last_sync
  run,           \* per run: position, start time and snapshot name
  snapshots,     \* the backup_<timestamp> directories on disk and who made them
  writes         \* which run wrote into which snapshot directory

rvars == <<sysclock, ntp_offset, ntp_last_sync, run, snapshots, writes>>

NoOffset == [known |-> FALSE, ticks |-> 0]
Offset(o) == [known |-> TRUE, ticks |-> o]

IdleRun == [pc |-> "idle", started |-> 0, name |-> -1]

\* no site has a run
RIdle ==
  /\ sysclock = 0
  /\ ntp_offset = NoOffset
  /\ ntp_last_sync = 0
  /\ run = [r \in RunIds |-> IdleRun]
  /\ snapshots = {}
  /\ writes = {}

(* ------------- state of construction by tag and of archiving ----------- *)
VARIABLES
  made,   \* a call that builds a manager from a tag: the entry point, the tag,
          \* what the factory returned or raised, the BackupHistory row
  arch    \* a finished snapshot on the local disk and the zip made of it

(* ------------------ state of a caller that owns a manager --------------- *)
\* calls of connect() one caller makes on one manager
MaxConnects == 2

VARIABLES
  connects,  \* calls of connect() made from outside backup() so far
  history    \* the BackupHistory row of a run, the statuses it was given in
             \* turn, and what the manager returned to the run

(* ------------------------ state of the scheduler ------------------------ *)
\* sites that have a schedule
NumSites == 2
\* the clock of the scheduling scenario runs from 0 to MaxHours, in hours
MaxHours == 1
\* calls of the functions of scheduler.py in one scenario
MaxApiCalls == 3
\* largest interval_value
MaxValue == 1
\* UTC offset of Europe/Istanbul in hours (scheduler.py line 20)
IstanbulOffset == 3

SiteIds == 1..NumSites

VARIABLES
  scheduler, \* scheduler.py's global: whether it was built (else None),
             \* whether it runs, the calls of start() and shutdown() it got
  jobs,      \* the jobs the scheduler holds
  hours,     \* the instant, in hours
  tzlocal,   \* UTC offset of the process's local time zone, in hours
  called,    \* the last call of a function of scheduler.py: its arguments,
             \* what it returned, and the scheduler and jobs it found
  sites,     \* the Site rows: "absent" | "active" | "inactive" | "deleted",
             \* and "active_removing" | "inactive_removing" while delete_site
             \* is between its two steps
  fired      \* a run of run_scheduled_backup started by the scheduler

svars == <<scheduler, jobs, hours, tzlocal, called, sites, fired>>

yvars == <<connects, history, svars>>

\* the values the functions of scheduler.py return, and a job's next_run_time
RetBool(b) == [kind |-> "bool", b |-> b, t |-> 0]
RetNone == [kind |-> "None", b |-> FALSE, t |-> 0]
RetTime(t) == [kind |-> "time", b |-> FALSE, t |-> t]
NoRet0 == [kind |-> "none", b |-> FALSE, t |-> 0]

\* the most recent add_backup_job / remove_backup_job / pause / resume that
\* reached the job of a site
NoLast == [op |-> "none", interval |-> 0, at |-> 0]

\* n: the calls made so far; lib: the call made on the scheduler object
NoCall == [op |-> "none", site |-> 0, ret |-> NoRet0, raised |-> FALSE,
           lib |-> "none", n |-> 0, last |-> [s \in SiteIds |-> NoLast]]
NoRun == [pc |-> "idle", site |-> 0, readAs |-> "none", row |-> FALSE,
          manager |-> FALSE, fetch |-> FALSE]

\* no scheduler was built and there are no sites
SIdle ==
  /\ scheduler = [init |-> FALSE, running |-> FALSE]
  /\ jobs = {}
  /\ hours = 0
  /\ tzlocal = 0
  /\ called = NoCall
  /\ sites = [s \in SiteIds |-> "absent"]
  /\ fired = NoRun

\* models.py lines 102-114: a BackupHistory built with status='running'
NewRow == [status |-> "running", completed_at |-> "None", size_bytes |-> 0,
           file_count |-> 0, error_message |-> "None", backup_path |-> "None"]

NoHistory == [row |-> [NewRow EXCEPT !.status = "none"], trail |-> <<>>,
              got |-> NoResult]

\* no caller has called connect() itself and no run has a row
YIdle == connects = 0 /\ history = NoHistory /\ SIdle

xvars == <<made, arch, yvars>>

\* the files of a finished snapshot
SnapFiles == {"index.html", "img/logo.png"}

\* no manager is being built and no snapshot is being archived
XIdle ==
  /\ made = [entry |-> "none", tag |-> <<>>, active |-> FALSE, pc |-> "idle",
             result |-> "none", history |-> "none"]
  /\ arch = [pc |-> "idle", files |-> [f \in SnapFiles |-> "absent"],
             out |-> "none", zip |-> "none"]
  /\ YIdle

\* no backup manager was built
BIdle ==
  /\ proto = "none"
  /\ cfg = [key |-> FALSE, keyfile |-> FALSE, password |-> FALSE]
  /\ pc = "idle"
  /\ client = "None" /\ sftp = "None" /\ ftp = "None"
  /\ sock = [ssh |-> "none", ftps |-> "none", plain |-> "none"]
  /\ use_tls = FALSE
  /\ ftps_error = NoMsg
  /\ ftpsRet = NoRet /\ plainRet = NoRet /\ connRet = NoRet
  /\ plainCalls = 0
  /\ localRoot = "absent"
  /\ madeDirs = {}
  /\ localFiles = [n \in Nodes |-> -1]
  /\ stack = <<>>
  /\ listed = [n \in Nodes |-> NoEntry]
  /\ outcome = [n \in 0..NumNodes |-> "none"]
  /\ ret = NoResult
  /\ ftp_cwd = Home
  /\ original_dir = Unset
  /\ sent = [n \in 0..NumNodes |-> NoneSent]
  /\ disconnects = 0
  /\ discRaised = FALSE
  /\ wire = <<>>
  /\ progress = <<>>

(* ------------------------- SSHBackupManager.connect --------------------- *)
\* lines 37-44, mutated: the password is preferred to the key file
AuthMethod_PasswordFirst(c) ==
  IF c.password THEN "password"
  ELSE IF c.key /\ c.keyfile THEN "key_filename" ELSE "none"

\* lines 37-44: the keyword connect() is given: the key file when a path is
\* configured and os.path.exists finds it, else the password, else nothing
AuthMethod(c) ==
  IF c.key /\ c.keyfile THEN "key_filename"
  ELSE IF c.password THEN "password" ELSE "none"

\* lines 28-44: build the client and choose the authentication method
SSH_connect_begin ==
  /\ pc = "connect" /\ proto = "SSH"
  /\ client' = "obj"
  /\ IF AuthMethod(cfg) # "none"
     THEN /\ pc' = "ssh_client_connect"
          /\ connRet' = connRet
     ELSE /\ pc' = "after_connect"
          /\ connRet' = Ret(FALSE, <<"No authentication method provided">>)
  /\ UNCHANGED <<cvars, rvars, xvars, hvars, cwdVars, sent, discVars, proto, cfg, sftp, ftp, sock, use_tls, ftps_error, ftpsRet,
                 plainRet, plainCalls, fsVars, walkVars, ret>>

\* line 46 and the handlers of lines 50-55.  paramiko leaves the transport of
\* a failed authentication or negotiation to the caller: it may still be open.
SSH_client_connect ==
  /\ pc = "ssh_client_connect"
  /\ \/ /\ sock' = [sock EXCEPT !.ssh = "open"]
        /\ pc' = "ssh_open_sftp"
        /\ connRet' = connRet
        /\ wire' = Append(wire, Step("connect", AuthMethod(cfg), TRUE))
     \/ /\ wire' = Append(wire, Step("connect", AuthMethod(cfg), FALSE))
        /\ \E s \in {"open", "closed"} : sock' = [sock EXCEPT !.ssh = s]
        /\ pc' = "after_connect"
        /\ connRet' = Ret(FALSE, <<"Authentication failed. Check credentials.">>)
     \/ /\ wire' = Append(wire, Step("connect", AuthMethod(cfg), FALSE))
        /\ \E s \in {"open", "closed"} : sock' = [sock EXCEPT !.ssh = s]
        /\ pc' = "after_connect"
        /\ connRet' = Ret(FALSE, <<"SSH error: ", "negotiation failed">>)
     \/ /\ sock' = sock
        /\ pc' = "after_connect"
        /\ connRet' = Ret(FALSE, <<"Connection error: ", "timed out">>)
        /\ wire' = Append(wire, Step("connect", AuthMethod(cfg), FALSE))
  /\ UNCHANGED <<cvars, rvars, xvars, progress, cwdVars, sent, discVars, proto, cfg, client, sftp, ftp, use_tls, ftps_error, ftpsRet,
                 plainRet, plainCalls, fsVars, walkVars, ret>>

\* lines 47-49 and the handlers: open the SFTP channel on the connected client
SSH_open_sftp ==
  /\ pc = "ssh_open_sftp"
  /\ \/ /\ sftp' = "obj"
        /\ connRet' = Ret(TRUE, <<"Connected successfully">>)
     \/ /\ sftp' = sftp
        /\ connRet' = Ret(FALSE, <<"SSH error: ", "channel refused">>)
  /\ pc' = "after_connect"
  /\ UNCHANGED <<cvars, rvars, xvars, hvars, cwdVars, sent, discVars, proto, cfg, client, ftp, sock, use_tls, ftps_error, ftpsRet,
                 plainRet, plainCalls, fsVars, walkVars, ret>>

(* ------------------------- FTPBackupManager.connect --------------------- *)
\* a failed step of the FTPS attempt: the except clauses of lines 259-274
FtpsFail(e) ==
  /\ ftpsRet' = Ret(FALSE, FtpsErrorMsg(e))
  /\ pc' = "ftp_connect_decide"

\* lines 239-247, mutated: the login is sent before AUTH TLS
FtpsStepAfter_LoginFirst(step) ==
  CASE step = "connect" -> "ftps_login"
    [] step = "login" -> "ftps_auth"
    [] step = "auth" -> "ftps_prot_p"

\* lines 239-251: the statement _connect_ftps runs after each successful one:
\* connect (239), auth (243), login (247), prot_p (251)
FtpsStepAfter(step) ==
  CASE step = "connect" -> "ftps_auth"
    [] step = "auth" -> "ftps_login"
    [] step = "login" -> "ftps_prot_p"

\* lines 209-239: self.ftp = FTP_TLS(...); self.ftp.connect(host, port)
FTP__connect_ftps_connect ==
  /\ pc = "connect" /\ proto = "FTP"
  /\ ftp' = "ftps"
  /\ \/ /\ sock' = [sock EXCEPT !.ftps = "open"]
        /\ pc' = FtpsStepAfter("connect")
        /\ ftpsRet' = ftpsRet
        /\ wire' = Append(wire, Step("connect", "ftps", TRUE))
     \/ \E e \in FtpsFailures :
          /\ sock' = [sock EXCEPT !.ftps = IF e.type = "other" THEN "none" ELSE "open"]
          /\ FtpsFail(e)
          /\ wire' = Append(wire, Step("connect", "ftps", FALSE))
  /\ UNCHANGED <<cvars, rvars, xvars, progress, cwdVars, sent, discVars, proto, cfg, client, sftp, use_tls, ftps_error, plainRet,
                 connRet, plainCalls, fsVars, walkVars, ret>>

\* line 243: self.ftp.auth()  (AUTH TLS)
FTP__connect_ftps_auth ==
  /\ pc = "ftps_auth"
  /\ \/ /\ pc' = FtpsStepAfter("auth") /\ ftpsRet' = ftpsRet
        /\ wire' = Append(wire, Step("auth", "ftps", TRUE))
     \/ /\ \E e \in FtpsFailures : FtpsFail(e)
        /\ wire' = Append(wire, Step("auth", "ftps", FALSE))
  /\ UNCHANGED <<cvars, rvars, xvars, progress, cwdVars, sent, discVars, proto, cfg, mgrVars, plainRet, connRet, plainCalls, fsVars,
                 walkVars, ret>>

\* line 247: self.ftp.login(username, password)
FTP__connect_ftps_login ==
  /\ pc = "ftps_login"
  /\ \/ /\ pc' = FtpsStepAfter("login") /\ ftpsRet' = ftpsRet
        /\ wire' = Append(wire, Step("login", "ftps", TRUE))
     \/ /\ \E e \in FtpsFailures : FtpsFail(e)
        /\ wire' = Append(wire, Step("login", "ftps", FALSE))
  /\ UNCHANGED <<cvars, rvars, xvars, progress, cwdVars, sent, discVars, proto, cfg, mgrVars, plainRet, connRet, plainCalls, fsVars,
                 walkVars, ret>>

\* lines 251-258: prot_p(), set_pasv(True), use_tls = True, return True
FTP__connect_ftps_prot_p ==
  /\ pc = "ftps_prot_p"
  /\ \/ /\ use_tls' = TRUE
        /\ ftpsRet' = Ret(TRUE, <<"Guvenli baglanti basarili (FTPS/TLS): ", "welcome">>)
        /\ pc' = "ftp_connect_decide"
        /\ wire' = wire \o <<Step("prot_p", "ftps", TRUE),
                              Step("set_pasv", "ftps", TRUE)>>
     \/ /\ use_tls' = use_tls
        /\ \E e \in FtpsFailures : FtpsFail(e)
        /\ wire' = Append(wire, Step("prot_p", "ftps", FALSE))
  /\ UNCHANGED <<cvars, rvars, xvars, progress, cwdVars, sent, discVars, proto, cfg, client, sftp, ftp, sock, ftps_error, plainRet,
                 connRet, plainCalls, fsVars, walkVars, ret>>

\* line 199, mutated: the markers compared without message.lower()
HasTlsMarker_CaseSensitive(message) ==
  \E x \in TlsMarkers : StrIn(x, message)

\* line 199: any(x in message.lower() for x in [...])
HasTlsMarker(message) ==
  \E x \in TlsMarkers : StrIn(x, StrLower(message))

\* line 201: f"FTPS baglantisi basarisiz: {message}"
FtpsRefusedMsg(message) ==
  <<"F","T","P","S"," ","b","a","g","l","a","n","t","i","s","i"," ",
    "b","a","s","a","r","i","s","i","z",":"," ">> \o message

\* lines 189-204: connect() after _connect_ftps returned
FTP_connect_decide ==
  /\ pc = "ftp_connect_decide"
  /\ IF ftpsRet.ok
     THEN /\ connRet' = ftpsRet
          /\ pc' = "after_connect"
          /\ UNCHANGED <<ftps_error, plainCalls>>
     ELSE /\ ftps_error' = ftpsRet.msg
          /\ IF HasTlsMarker(ftpsRet.msg)
             THEN /\ connRet' = Ret(FALSE, FtpsRefusedMsg(ftpsRet.msg))
                  /\ pc' = "after_connect"
                  /\ plainCalls' = plainCalls
             ELSE /\ connRet' = connRet
                  /\ pc' = "plain_connect"
                  /\ plainCalls' = plainCalls + 1
  /\ UNCHANGED <<cvars, rvars, xvars, hvars, cwdVars, sent, discVars, proto, cfg, client, sftp, ftp, sock, use_tls, ftpsRet,
                 plainRet, fsVars, walkVars, ret>>

\* a failed step of the plaintext attempt: the except clauses of lines 291-315
PlainFail(t) ==
  /\ plainRet' = Ret(FALSE, PlainErrorMsg(t))
  /\ pc' = "ftp_connect_return"

\* lines 278-281: self.ftp = ftplib.FTP(); self.ftp.connect(host, port).
\* The FTP_TLS object of the failed attempt loses its last reference here and
\* is never closed by the code; whether its socket is closed is up to the
\* garbage collector.
FTP__connect_plain_connect ==
  /\ pc = "plain_connect"
  /\ ftp' = "plain"
  /\ \E dropped \in {sock.ftps} \cup (IF sock.ftps = "open" THEN {"closed"} ELSE {}) :
       \/ /\ sock' = [sock EXCEPT !.ftps = dropped, !.plain = "open"]
          /\ pc' = "plain_login"
          /\ plainRet' = plainRet
          /\ wire' = Append(wire, Step("connect", "plain", TRUE))
       \/ \E t \in PlainFailures :
            /\ sock' = [sock EXCEPT !.ftps = dropped,
                          !.plain = IF t \in {"timeout", "other"} THEN "none" ELSE "open"]
            /\ PlainFail(t)
            /\ wire' = Append(wire, Step("connect", "plain", FALSE))
  /\ UNCHANGED <<cvars, rvars, xvars, progress, cwdVars, sent, discVars, proto, cfg, client, sftp, use_tls, ftps_error, ftpsRet,
                 connRet, plainCalls, fsVars, walkVars, ret>>

\* lines 283-290: login, set_pasv(True), use_tls = False, return True
FTP__connect_plain_login ==
  /\ pc = "plain_login"
  /\ \/ /\ use_tls' = FALSE
        /\ plainRet' = Ret(TRUE, <<"Baglanti basarili: ", "welcome">>)
        /\ pc' = "ftp_connect_return"
        /\ wire' = wire \o <<Step("login", "plain", TRUE),
                              Step("set_pasv", "plain", TRUE)>>
     \/ /\ use_tls' = use_tls
        /\ \E t \in PlainFailures : PlainFail(t)
        /\ wire' = Append(wire, Step("login", "plain", FALSE))
  /\ UNCHANGED <<cvars, rvars, xvars, progress, cwdVars, sent, discVars, proto, cfg, client, sftp, ftp, sock, ftps_error, ftpsRet,
                 connRet, plainCalls, fsVars, walkVars, ret>>

\* line 205: return self._connect_plain_ftp()
FTP_connect_return ==
  /\ pc = "ftp_connect_return"
  /\ connRet' = plainRet
  /\ pc' = "after_connect"
  /\ UNCHANGED <<cvars, rvars, xvars, hvars, cwdVars, sent, discVars, proto, cfg, mgrVars, ftpsRet, plainRet, plainCalls, fsVars,
                 walkVars, ret>>

(* ------------------------------ disconnect ------------------------------ *)
\* SSHBackupManager.disconnect, lines 57-70: the socket after it
SSH_disconnect_sock ==
  IF client # "None" /\ sock.ssh = "open"
  THEN [sock EXCEPT !.ssh = "closed"]
  ELSE sock

\* FTPBackupManager.disconnect, lines 317-328: the sockets after it
FTP_disconnect_sock ==
  IF ftp # "None" /\ sock[ftp] = "open"
  THEN [sock EXCEPT ![ftp] = "closed"]
  ELSE sock

\* lines 57-70 / 317-328, mutated: no handler around the closing calls, so a
\* closing call that raises ends disconnect() before the fields are reset
DisconnectWhen_NoHandler(closed) ==
  /\ disconnects' = disconnects + 1
  /\ ftp_cwd' = IF closed THEN Home ELSE ftp_cwd
  /\ IF closed
     THEN /\ discRaised' = discRaised
          /\ IF proto = "SSH"
             THEN /\ sftp' = "None"
                  /\ client' = "None"
                  /\ sock' = SSH_disconnect_sock
                  /\ UNCHANGED <<ftp, use_tls>>
             ELSE /\ sock' = FTP_disconnect_sock
                  /\ ftp' = "None"
                  /\ use_tls' = IF ftp # "None" THEN FALSE ELSE use_tls
                  /\ UNCHANGED <<client, sftp>>
     ELSE /\ discRaised' = TRUE
          /\ UNCHANGED <<client, sftp, ftp, use_tls, sock>>

\* disconnect() of the manager in use, lines 57-70 / 317-328.  closed: the
\* closing calls (sftp.close, client.close / ftp.quit, ftp.close) returned;
\* otherwise they raised, which the bare except clauses swallow, and the
\* connection is left as it was.  The fields are reset either way and no
\* exception leaves the call.  A closed FTP session has no working directory.
DisconnectWhen(closed) ==
  /\ disconnects' = disconnects + 1
  /\ ftp_cwd' = IF closed THEN Home ELSE ftp_cwd
  /\ discRaised' = discRaised
  /\ IF proto = "SSH"
     THEN /\ sftp' = "None"
          /\ client' = "None"
          /\ sock' = IF closed THEN SSH_disconnect_sock ELSE sock
          /\ UNCHANGED <<ftp, use_tls>>
     ELSE /\ sock' = IF closed THEN FTP_disconnect_sock ELSE sock
          /\ ftp' = "None"
          /\ use_tls' = IF ftp # "None" THEN FALSE ELSE use_tls
          /\ UNCHANGED <<client, sftp>>

\* a closing call is made, and so can raise, only for a field that is set
\* (lines 59, 65 / 319)
CloseOutcomes ==
  IF (proto = "SSH" /\ (sftp # "None" \/ client # "None")) \/ (proto = "FTP" /\ ftp # "None")
  THEN BOOLEAN ELSE {TRUE}

\* disconnect() of the manager in use
Disconnect == \E closed \in CloseOutcomes : DisconnectWhen(closed)

(* ----------------------- backup(): before the walk ---------------------- *)
\* the subclasses of Exception raised in this model
ExceptionClasses == {"IOError", "OSError", "Exception", "SSHException",
                     "EOFError", "error_temp", "error_perm"}

\* line 168 / 519, mutated: a handler for I/O errors only
BackupCatches_IOOnly(e) == e \in {"IOError", "OSError"}

\* line 168 / 519: except Exception
BackupCatches(e) == e \in ExceptionClasses

\* the message of the except clause, line 169 / 520, for an exception of class
\* e with text str(e)
BackupErrorMsg(e, text) ==
  IF proto = "SSH" THEN <<"Backup error: ", text>>
                   ELSE <<"Yedekleme hatasi: ", e, ": ", text>>

\* the texts of the two pre-flight exceptions, lines 141, 145 / 499, 503
RemotePathText == "remote path does not exist or is not accessible"
NotWritableText == "local backup path is not writable"

\* an exception of class e reaches the try statement of backup():
\* lines 168-169 / 519-522
BackupExcept(e, text) ==
  /\ ret' = IF BackupCatches(e)
            THEN Returned(FALSE, BackupErrorMsg(e, text), 0, 0)
            ELSE [NoResult EXCEPT !.state = "raised"]
  /\ pc' = "finally"

\* line 132 / 488: success, message = self.connect()
Backup_start ==
  /\ pc = "start"
  /\ pc' = "connect"
  /\ UNCHANGED <<cvars, rvars, xvars, hvars, cwdVars, sent, discVars, proto, cfg, mgrVars, connVars, fsVars, walkVars, ret>>

\* lines 133-134 / 489-491: the early return, before the try statement
Backup_after_connect ==
  /\ pc = "after_connect"
  /\ IF connRet.ok
     THEN pc' = "probe" /\ ret' = ret
     ELSE pc' = "done" /\ ret' = Returned(FALSE, connRet.msg, 0, 0)
  \* the record of connect() is kept only while its result is being looked at
  /\ wire' = IF connRet.ok THEN <<>> ELSE wire
  /\ UNCHANGED <<cvars, rvars, xvars, progress, cwdVars, sent, discVars, proto, cfg, mgrVars, connVars, fsVars, walkVars>>

\* lines 138-141 / 495-499, mutated: the snapshot directory of lines 148-151
\* is made before the remote root is probed
Backup_probe_Late ==
  /\ pc = "probe"
  /\ madeDirs' = madeDirs \cup {0}
  /\ \/ pc' = "writable" /\ ret' = ret
     \/ BackupExcept("Exception", RemotePathText)
  /\ UNCHANGED <<cvars, rvars, xvars, hvars, cwdVars, sent, discVars, proto, cfg, mgrVars, connVars, localRoot, localFiles, walkVars>>

\* lines 138-141 (sftp.stat) / 495-499 (ftp.nlst): probe of the remote root
Backup_probe ==
  /\ pc = "probe"
  /\ \/ pc' = "writable" /\ ret' = ret
     \/ BackupExcept("Exception", RemotePathText)
     \/ BackupExcept(IF proto = "SSH" THEN "EOFError" ELSE "error_temp",
                     "connection lost")
  /\ UNCHANGED <<cvars, rvars, xvars, hvars, cwdVars, sent, discVars, proto, cfg, mgrVars, connVars, fsVars, walkVars>>

\* lines 144-145 / 502-503: the local root exists and is not writable
Backup_writable ==
  /\ pc = "writable"
  /\ IF localRoot = "readonly"
     THEN BackupExcept("Exception", NotWritableText)
     ELSE pc' = "mkroot" /\ ret' = ret
  /\ UNCHANGED <<cvars, rvars, xvars, hvars, cwdVars, sent, discVars, proto, cfg, mgrVars, connVars, fsVars, walkVars>>

NewFrame(d) == [dir |-> d, items |-> <<>>, tf |-> 0, tb |-> 0]

\* lines 148-153 / 506-512: timestamp, os.makedirs(local_backup_path) and the
\* call of download_directory(remote_path, backup_dir)
Backup_mkroot ==
  /\ pc = "mkroot"
  /\ \/ /\ localRoot' = "writable"
        /\ stack' = <<NewFrame(0)>>
        /\ pc' = "dd_enter"
        /\ ret' = ret
     \/ /\ localRoot = "absent"
        /\ BackupExcept("OSError", "cannot create the local root")
        /\ UNCHANGED <<localRoot, stack>>
  /\ UNCHANGED <<cvars, rvars, xvars, hvars, cwdVars, sent, discVars, proto, cfg, mgrVars, connVars, madeDirs, localFiles, listed,
                 outcome>>

(* --------------------------- download_directory ------------------------- *)
Top == stack[Len(stack)]
Below == SubSeq(stack, 1, Len(stack) - 1)
SetTop(f) == [stack EXCEPT ![Len(stack)] = f]

\* the entries of directory d on the server, in listing order
ChildSeq(d) == SelectSeq(<<2 * d + 1, 2 * d + 2>>, LAMBDA n : n <= NumNodes)
Children(d) == {ChildSeq(d)[i] : i \in DOMAIN ChildSeq(d)}
Parent(n) == (n - 1) \div 2

\* what the server may hold under one name
EntryChoices ==
  {[kind |-> "dir", size |-> 0]} \cup {[kind |-> "file", size |-> s] : s \in 0..MaxSize}

\* lines 108-109 / 458-459, mutated: the subdirectory's totals assigned, not added
AddTotals_Assign(f, files, bytes) == [f EXCEPT !.tf = files, !.tb = bytes]

\* lines 108-109 / 458-459: total_files += files; total_bytes += bytes_downloaded
AddTotals(f, files, bytes) == [f EXCEPT !.tf = @ + files, !.tb = @ + bytes]

\* lines 114-115 / 466-467: total_files += 1; total_bytes += file_size
AddFile(f, file_size) == [f EXCEPT !.tf = @ + 1, !.tb = @ + file_size]

\* the innermost call returns (total_files, total_bytes): lines 96, 124 / 421,
\* 433, 478.  The caller adds them (lines 105-109 / 455-459); backup() takes
\* them from the outermost call.
ReturnTotals(how) ==
  /\ outcome' = [outcome EXCEPT ![Top.dir] = how]
  /\ IF Len(stack) > 1
     THEN /\ stack' = [Below EXCEPT ![Len(stack) - 1] = AddTotals(@, Top.tf, Top.tb)]
          /\ pc' = "dd_items"
     ELSE /\ stack' = stack
          /\ pc' = "bk_return"
  /\ ret' = ret

\* lines 120-122 / 474-476, mutated: the per-item handler is missing, an
\* exception of a nested call unwinds every call up to backup()
Propagate_Unwind(e, text) ==
  /\ outcome' = [outcome EXCEPT ![Top.dir] = "raised"]
  /\ stack' = <<>>
  /\ BackupExcept(e, text)

\* an exception leaves the innermost call: the caller's handler of lines
\* 120-122 / 474-476 absorbs it and goes on; from the outermost call it reaches
\* the try statement of backup()
Propagate(e, text) ==
  /\ outcome' = [outcome EXCEPT ![Top.dir] = "raised"]
  /\ IF Len(stack) > 1
     THEN /\ stack' = Below
          /\ pc' = "dd_items"
          /\ ret' = ret
     ELSE /\ stack' = <<>>
          /\ BackupExcept(e, text)

\* line 88 / 393: os.makedirs(local_path, exist_ok=True)
DD_enter ==
  /\ pc = "dd_enter"
  /\ \/ /\ madeDirs' = madeDirs \cup {Top.dir}
        /\ pc' = "dd_list"
        /\ UNCHANGED <<stack, outcome, ret>>
     \/ /\ madeDirs' = madeDirs
        /\ Propagate("OSError", "cannot create the directory")
  /\ UNCHANGED <<cvars, rvars, xvars, hvars, cwdVars, sent, discVars, proto, cfg, mgrVars, connVars, localRoot, localFiles, listed>>

\* the entries for the directory itself and for the one above that a server
\* may put first in a listing.  paramiko's listdir_attr never returns them.
DotLines ==
  IF proto = "SSH" THEN {<<>>} ELSE {<<>>, <<".">>, <<"..">>, <<".", "..">>}
\* what such an entry would lead to: the directory d itself, or the one above
DotEntry(name, d) ==
  [id |-> IF name = "." \/ d = 0 THEN d ELSE Parent(d),
   is_dir |-> TRUE, st_size |-> 0, name |-> name]

\* lines 402, 356, 369, 375, mutated: no name is left out of items
KeepName_All(name) == TRUE

\* line 402 (MLSD) and lines 356, 369, 375 (_parse_list_line: Unix format,
\* Windows <DIR> format, Windows file format): '.' and '..' are left out
KeepName(name) == name \notin {".", ".."}

\* a listing of the innermost directory succeeded: the items of the loop
Listing(how) ==
  \E f \in [Children(Top.dir) -> EntryChoices], dots \in DotLines :
    /\ listed' = [n \in Nodes |-> IF n \in Children(Top.dir) THEN f[n] ELSE listed[n]]
    /\ stack' = SetTop([Top EXCEPT !.items = SelectSeq(
                   [i \in DOMAIN dots |-> DotEntry(dots[i], Top.dir)] \o
                   [i \in DOMAIN ChildSeq(Top.dir) |->
                      [id |-> ChildSeq(Top.dir)[i],
                       is_dir |-> f[ChildSeq(Top.dir)[i]].kind = "dir",
                       st_size |-> f[ChildSeq(Top.dir)[i]].size,
                       name |-> "entry"]],
                   LAMBDA e : KeepName(e.name))])
    /\ outcome' = [outcome EXCEPT ![Top.dir] = how]
    /\ pc' = "dd_items"
    /\ ret' = ret

\* SFTP, lines 90-96: items = self.sftp.listdir_attr(remote_path)
SSH_DD_list ==
  /\ pc = "dd_list" /\ proto = "SSH"
  /\ sent' = [sent EXCEPT ![Top.dir].listdir = @ + 1]
  /\ \/ Listing("listed")
     \/ ReturnTotals("list_failed") /\ listed' = listed
     \/ Propagate("EOFError", "connection lost") /\ listed' = listed
  /\ UNCHANGED <<cvars, rvars, xvars, hvars, cwdVars, discVars, proto, cfg, mgrVars, connVars, fsVars>>

\* FTP, lines 399-415: MLSD; when it fails, pwd() (its failure is swallowed)
FTP_DD_mlsd ==
  /\ pc = "dd_list" /\ proto = "FTP"
  /\ sent' = [sent EXCEPT ![Top.dir].mlsd = @ + 1]
  /\ \/ Listing("listed") /\ UNCHANGED cwdVars
     \/ /\ pc' = "dd_cwd"
        /\ \/ original_dir' = ftp_cwd  \* line 413: pwd() answered
           \/ original_dir' = Slash    \* lines 414-415: pwd() raised
        /\ UNCHANGED <<stack, listed, outcome, ret, ftp_cwd>>
  /\ UNCHANGED <<cvars, rvars, xvars, hvars, discVars, proto, cfg, mgrVars, connVars, fsVars>>

\* FTP, lines 417-421: self.ftp.cwd(remote_path); only error_perm is handled
FTP_DD_cwd ==
  /\ pc = "dd_cwd"
  /\ \/ /\ pc' = "dd_listcmd"
        /\ ftp_cwd' = DirPath(Top.dir)
        /\ UNCHANGED <<stack, outcome, ret, original_dir>>
     \/ ReturnTotals("list_failed") /\ ftp_cwd' = ftp_cwd /\ original_dir' = Unset
     \/ /\ Propagate("error_temp", "connection lost")
        /\ ftp_cwd' = ftp_cwd /\ original_dir' = Unset
  /\ UNCHANGED <<cvars, rvars, xvars, hvars, sent, discVars, proto, cfg, mgrVars, connVars, fsVars, listed>>

\* lines 426-433, mutated: when LIST fails the listing starts over with MLSD
FTP_DD_listcmd_Retry ==
  /\ pc = "dd_listcmd"
  /\ sent' = [sent EXCEPT ![Top.dir].list = @ + 1]
  /\ \/ Listing("listed_by_LIST")
     \/ pc' = "dd_list" /\ UNCHANGED <<stack, listed, outcome, ret>>
  /\ \/ ftp_cwd' = original_dir
     \/ ftp_cwd' = ftp_cwd
  /\ original_dir' = Unset
  /\ UNCHANGED <<cvars, rvars, xvars, hvars, discVars, proto, cfg, mgrVars, connVars, fsVars>>

\* FTP, lines 423-446: LIST, parse, cwd back to original_dir; a failure of
\* that cwd is swallowed (lines 429-432, 441-444)
FTP_DD_listcmd ==
  /\ pc = "dd_listcmd"
  /\ sent' = [sent EXCEPT ![Top.dir].list = @ + 1]
  /\ \/ Listing("listed_by_LIST")
     \/ ReturnTotals("list_failed") /\ listed' = listed
  /\ \/ ftp_cwd' = original_dir
     \/ ftp_cwd' = ftp_cwd
  /\ original_dir' = Unset
  /\ UNCHANGED <<cvars, rvars, xvars, hvars, discVars, proto, cfg, mgrVars, connVars, fsVars>>

\* the file size added for a fetched file: SFTP takes st_size of the listing
\* (line 113), FTP the size of the local file just written (line 465)
FileSize(item) ==
  IF proto = "SSH" THEN item.st_size ELSE localFiles'[item.id]

\* lines 117-118 / 469-470, mutated: the callback is called for a failed fetch
Progress_OnFailure(log, item, how, frame) ==
  Append(log, [id |-> item.id, size |-> IF how = "fetch_failed" THEN 0 ELSE FileSize(item),
               total_files |-> frame.tf])

\* lines 117-118 / 469-470: progress_callback(filename, file_size), reached
\* only after the fetch returned and lines 113-115 / 465-467 updated the
\* counters of this call (frame).  The caller of backup() supplied a callback.
Progress(log, item, how, frame) ==
  IF how \in {"fetched", "fetched_callback_raised"}
  THEN Append(log, [id |-> item.id, size |-> FileSize(item),
                    total_files |-> frame.tf])
  ELSE log

\* lines 98-122 / 448-476: one turn of the loop over the items
DD_item ==
  /\ pc = "dd_items"
  /\ Top.items # <<>>
  /\ LET item == Head(Top.items)
         rest == [Top EXCEPT !.items = Tail(@)]
     IN IF item.is_dir
        THEN \* recurse: lines 105-107 / 455-457
             /\ stack' = Append(SetTop(rest), NewFrame(item.id))
             /\ outcome' = [outcome EXCEPT ![item.id] = "entered"]
             /\ pc' = "dd_enter"
             /\ localFiles' = localFiles
             /\ sent' = sent
             /\ progress' = progress
        ELSE /\ sent' = [sent EXCEPT ![item.id].retr = @ + 1]
             /\ \/ \* fetched; the progress callback returned
                   /\ localFiles' = [localFiles EXCEPT ![item.id] = listed[item.id].size]
                   /\ stack' = SetTop(AddFile(rest, FileSize(item)))
                   /\ outcome' = [outcome EXCEPT ![item.id] = "fetched"]
                   /\ pc' = "dd_items"
                \/ \* fetched; the progress callback raised (absorbed, line 120 / 474)
                   /\ localFiles' = [localFiles EXCEPT ![item.id] = listed[item.id].size]
                   /\ stack' = SetTop(AddFile(rest, FileSize(item)))
                   /\ outcome' = [outcome EXCEPT ![item.id] = "fetched_callback_raised"]
                   /\ pc' = "dd_items"
                \/ \* the transfer failed (absorbed): no local file, or a truncated one
                   /\ \E left \in {-1, 0} : localFiles' = [localFiles EXCEPT ![item.id] = left]
                   /\ stack' = SetTop(rest)
                   /\ outcome' = [outcome EXCEPT ![item.id] = "fetch_failed"]
                   /\ pc' = "dd_items"
             /\ progress' = Progress(progress, item, outcome'[item.id], Top')
  /\ UNCHANGED <<cvars, rvars, xvars, wire, cwdVars, discVars, proto, cfg, mgrVars, connVars, localRoot,
                 madeDirs, listed, ret>>

\* line 124 / 478: the loop is over, return total_files, total_bytes
DD_return ==
  /\ pc = "dd_items"
  /\ Top.items = <<>>
  /\ ReturnTotals(outcome[Top.dir])
  /\ UNCHANGED <<cvars, rvars, xvars, hvars, cwdVars, sent, discVars, proto, cfg, mgrVars, connVars, fsVars, listed>>

(* ------------------------ backup(): after the walk ---------------------- *)
\* lines 157-166, mutated: a walk that fetched nothing is reported as failed
Backup_return_FailOnEmpty ==
  /\ pc = "bk_return"
  /\ ret' = IF Top.tf = 0
            THEN Returned(FALSE, <<"Backup error: ", "no files">>, 0, 0)
            ELSE Returned(TRUE, <<"backup_dir">>, Top.tf, Top.tb)
  /\ stack' = <<>>
  /\ pc' = "finally"
  /\ UNCHANGED <<cvars, rvars, xvars, hvars, cwdVars, sent, discVars, proto, cfg, mgrVars, connVars, fsVars, listed, outcome>>

\* lines 153-166 / 512-517: return True, backup_dir, file_count, total_bytes.
\* The listdir of lines 158-164 changes nothing and its failure is swallowed.
Backup_return ==
  /\ pc = "bk_return"
  /\ ret' = Returned(TRUE, <<"backup_dir">>, Top.tf, Top.tb)
  /\ stack' = <<>>
  /\ pc' = "finally"
  /\ UNCHANGED <<cvars, rvars, xvars, hvars, cwdVars, sent, discVars, proto, cfg, mgrVars, connVars, fsVars, listed, outcome>>

\* lines 170-171 / 523-524: finally: self.disconnect()
Backup_finally ==
  /\ pc = "finally"
  /\ Disconnect
  /\ pc' = "done"
  /\ UNCHANGED <<cvars, rvars, xvars, hvars, original_dir, sent, proto, cfg, ftps_error, connVars,
                 fsVars, walkVars, ret>>

\* a call of disconnect() by the owner of the manager, outside backup(): on a
\* manager that never connected, after backup() returned (connect failed, or
\* its finally clause has disconnected already), or after an earlier call
Caller_disconnect ==
  /\ pc \in {"start", "done"}
  /\ disconnects < MaxDisconnects
  /\ Disconnect
  /\ pc' = "done"
  /\ UNCHANGED <<cvars, rvars, xvars, hvars, original_dir, sent, proto, cfg, ftps_error, connVars,
                 fsVars, walkVars, ret>>

BNext ==
  \/ Backup_start
  \/ SSH_connect_begin
  \/ SSH_client_connect
  \/ SSH_open_sftp
  \/ FTP__connect_ftps_connect
  \/ FTP__connect_ftps_auth
  \/ FTP__connect_ftps_login
  \/ FTP__connect_ftps_prot_p
  \/ FTP_connect_decide
  \/ FTP__connect_plain_connect
  \/ FTP__connect_plain_login
  \/ FTP_connect_return
  \/ Backup_after_connect
  \/ Backup_probe
  \/ Backup_writable
  \/ Backup_mkroot
  \/ DD_enter
  \/ SSH_DD_list
  \/ FTP_DD_mlsd
  \/ FTP_DD_cwd
  \/ FTP_DD_listcmd
  \/ DD_item
  \/ DD_return
  \/ Backup_return
  \/ Backup_finally

(* ------------------- cloud_storage.py: the operations ------------------- *)
Min(a, b) == IF a < b THEN a ELSE b

\* an HTTP request takes time: the clock when its response has arrived
LaterTimes == {now, Min(now + 1, MaxTime)}

tokVars == <<access_token, refresh_token, token_expiry, issued, refreshSeen>>

SetUp(t, r) == up' = [up EXCEPT ![t] = r]

\* a caller invokes list_folders or upload_file on the manager.  Uploads that
\* run concurrently are direct uploads.
Call(t) ==
  /\ provider # "none"
  /\ IF mode = "sequential" THEN t = 1 /\ up[t].pc \in {"idle", "done"}
                                 /\ opsDone < MaxOps
                            ELSE up[t].pc = "idle"
  /\ \E op \in {"list_folders", "upload_file"} :
     \E size \in IF op = "list_folders" THEN {0} ELSE FileSizes(provider) :
       /\ (mode = "concurrent" => size <= Threshold(provider))
       /\ SetUp(t, [IdleThread EXCEPT !.pc = "ensure", !.op = op,
                                      !.file_size = size])
  /\ opsDone' = opsDone + 1
  /\ UNCHANGED <<bvars, rvars, xvars, provider, mode, now, tokVars>>

\* lines 38-39: a stored ISO string is parsed and kept as a datetime
ParsedExpiry(e) == IF e.form = "str" THEN [e EXCEPT !.form = "datetime"] ELSE e

\* line 40, mutated: the expiry instant itself still counts as valid
is_token_expired_Strict(e, clock) ==
  IF e.form = "None" THEN TRUE ELSE clock > e.at

\* is_token_expired, lines 35-40
is_token_expired(e, clock) ==
  IF e.form = "None" THEN TRUE ELSE clock >= e.at

\* ensure_valid_token, lines 51-53, up to the call of refresh_access_token
ensure_valid_token(t) ==
  /\ up[t].pc = "ensure"
  /\ token_expiry' = ParsedExpiry(token_expiry)
  /\ LET refresh == is_token_expired(token_expiry, now) /\ refresh_token # -1
     IN SetUp(t, [up[t] EXCEPT
            !.pc = IF refresh THEN "refresh" ELSE "request",
            !.refreshes = IF refresh THEN @ + 1 ELSE @,
            !.checked = TRUE,
            !.seen = [done |-> TRUE, form |-> token_expiry'.form,
                      at |-> token_expiry.at, now |-> now,
                      rt |-> refresh_token # -1]])
  /\ UNCHANGED <<bvars, rvars, xvars, provider, mode, access_token, refresh_token, now, issued,
                 refreshSeen, opsDone>>

\* lines 117-122 / 252-257 / 415-420, mutated: the stored access token is
\* dropped before the answer of the token endpoint is examined
refresh_access_token_DropsFirst(t) ==
  /\ up[t].pc = "refresh"
  /\ \E t1 \in LaterTimes :
       /\ now' = t1
       /\ \/ /\ issued' = issued + 1
             /\ access_token' = issued + 1
             /\ \E expires_in \in {1, 2} :
                  token_expiry' = [form |-> "datetime", at |-> t1 + expires_in]
             /\ refresh_token' \in
                  {refresh_token} \cup (IF provider = "onedrive" THEN {issued + 1} ELSE {})
             /\ refreshSeen' = Append(refreshSeen, [form |-> up[t].seen.form,
                                                    at |-> up[t].seen.at])
             /\ SetUp(t, [up[t] EXCEPT !.pc = "request"])
          \/ /\ SetUp(t, [up[t] EXCEPT !.pc = "done", !.result = "raised"])
             /\ access_token' = -1
             /\ UNCHANGED <<refresh_token, token_expiry, issued, refreshSeen>>
  /\ UNCHANGED <<bvars, rvars, xvars, provider, mode, opsDone>>

\* line 255, mutated: every provider's refresh takes the refresh token of the
\* answer
refresh_access_token_RotatesAll(t) ==
  /\ up[t].pc = "refresh"
  /\ \E t1 \in LaterTimes :
       /\ now' = t1
       /\ \/ /\ issued' = issued + 1
             /\ access_token' = issued + 1
             /\ \E expires_in \in {1, 2} :
                  token_expiry' = [form |-> "datetime", at |-> t1 + expires_in]
             /\ refresh_token' \in {refresh_token, issued + 1}
             /\ refreshSeen' = Append(refreshSeen, [form |-> up[t].seen.form,
                                                    at |-> up[t].seen.at])
             /\ SetUp(t, [up[t] EXCEPT !.pc = "request"])
          \/ /\ SetUp(t, [up[t] EXCEPT !.pc = "done", !.result = "raised"])
             /\ UNCHANGED tokVars
  /\ UNCHANGED <<bvars, rvars, xvars, provider, mode, opsDone>>

\* refresh_access_token, lines 109-127 / 242-263 / 405-425: the POST to the
\* token endpoint.  Only OneDrive takes a new refresh token from the answer.
refresh_access_token(t) ==
  /\ up[t].pc = "refresh"
  /\ \E t1 \in LaterTimes :
       /\ now' = t1
       /\ \/ /\ issued' = issued + 1
             /\ access_token' = issued + 1
             /\ \E expires_in \in {1, 2} :
                  token_expiry' = [form |-> "datetime", at |-> t1 + expires_in]
             /\ refresh_token' \in
                  {refresh_token} \cup (IF provider = "onedrive" THEN {issued + 1} ELSE {})
             /\ refreshSeen' = Append(refreshSeen, [form |-> up[t].seen.form,
                                                    at |-> up[t].seen.at])
             /\ SetUp(t, [up[t] EXCEPT !.pc = "request"])
          \/ \* resp.raise_for_status() raises
             /\ SetUp(t, [up[t] EXCEPT !.pc = "done", !.result = "raised"])
             /\ UNCHANGED tokVars
  /\ UNCHANGED <<bvars, rvars, xvars, provider, mode, opsDone>>

(* ------------------------------ the requests ---------------------------- *)
\* Response.raise_for_status(): an HTTPError for the 4xx and 5xx statuses
RaisesForStatus(status) == status >= 400

\* what a server answers to a listing, a direct upload or a session call
Replies == {200, 401}
\* what the OneDrive upload URL answers to one chunk
ChunkReplies == {200, 201, 202, 204, 416}

NoArgs == [cursor |-> -1, names |-> FALSE, declLo |-> -1, declHi |-> -1]

\* one request as it leaves the client: whether it carries self._headers(),
\* the file bytes [lo, hi) of its body, the cursor offset and the commit path
\* of its Dropbox-API-Arg, the Content-Range it declares, and the answer
Req(t, kind, auth, lo, hi, args, status) ==
  [kind |-> kind, auth |-> auth, checked |-> up[t].checked,
   stale |-> auth /\ refresh_token # -1 /\ token_expiry.form # "None"
                  /\ now >= token_expiry.at,
   lo |-> lo, hi |-> hi, cursor |-> args.cursor, names |-> args.names,
   declLo |-> args.declLo, declHi |-> args.declHi, status |-> status]

\* the thread after request q left
Sent(t, q) == [up[t] EXCEPT !.calls = Append(@, q), !.checked = FALSE]

\* the operation ends: a value is returned, or the exception reaches the caller
Ends(r, res) == [r EXCEPT !.pc = "done", !.result = res]

\* a request followed by resp.raise_for_status(); r is the thread when the
\* answer is accepted
Exchange(t, kind, auth, lo, hi, args, r) ==
  \E status \in Replies : \E t1 \in LaterTimes :
    /\ now' = t1
    /\ LET q == Req(t, kind, auth, lo, hi, args, status)
       IN SetUp(t, IF RaisesForStatus(status)
                   THEN Ends(Sent(t, q), "raised")
                   ELSE [Sent(t, q) EXCEPT !.pc = r.pc, !.result = r.result,
                                           !.offset = r.offset, !.fpos = r.fpos])
    /\ UNCHANGED <<bvars, rvars, xvars, provider, mode, tokVars, opsDone>>

\* list_folders after ensure_valid_token: lines 134-152 / 271-287 / 433-447
list_folders(t) ==
  /\ up[t].pc = "request" /\ up[t].op = "list_folders"
  /\ Exchange(t, "list", TRUE, 0, 0, NoArgs, Ends(up[t], "folders"))

\* GoogleDriveManager.upload_file, lines 157-180: the resumable session
GD_upload_session(t) ==
  /\ up[t].pc = "request" /\ up[t].op = "upload_file"
  /\ provider = "google_drive"
  /\ Exchange(t, "session", TRUE, 0, 0, NoArgs, [up[t] EXCEPT !.pc = "gd_put"])

\* GoogleDriveManager.upload_file, lines 183-193: the content
GD_upload_put(t) ==
  /\ up[t].pc = "gd_put"
  /\ Exchange(t, "put", FALSE, 0, up[t].file_size, NoArgs, Ends(up[t], "id"))

\* OneDriveManager.upload_file, lines 292-317: the direct upload
OD_upload_direct(t) ==
  /\ up[t].pc = "request" /\ up[t].op = "upload_file"
  /\ provider = "onedrive"
  /\ ~(up[t].file_size > OD_Threshold)
  /\ Exchange(t, "direct", TRUE, 0, up[t].file_size,
              [NoArgs EXCEPT !.names = TRUE], Ends(up[t], "id"))

\* OneDriveManager._upload_large_file, lines 320-335: createUploadSession
OD_create_session(t) ==
  /\ up[t].pc = "request" /\ up[t].op = "upload_file"
  /\ provider = "onedrive"
  /\ up[t].file_size > OD_Threshold
  /\ Exchange(t, "session", TRUE, 0, 0, [NoArgs EXCEPT !.names = TRUE],
              [up[t] EXCEPT !.pc = "od_chunk", !.offset = 0, !.fpos = 0])

\* f.read(), mutated: the rest of the file is read at once
ReadLen_Whole(r, chunk_size) == r.file_size - r.fpos

\* f.read(chunk_size) at read position fpos of a file of file_size bytes
ReadLen(r, chunk_size) == Min(chunk_size, r.file_size - r.fpos)

\* OneDriveManager._upload_large_file, lines 336-355: one turn of the loop
OD_chunk(t) ==
  /\ up[t].pc = "od_chunk"
  /\ Len(up[t].calls) < MaxCalls
  /\ LET n == ReadLen(up[t], OD_ChunkSize)
         end == up[t].offset + n - 1
     IN \E status \in ChunkReplies : \E t1 \in LaterTimes :
          LET q == Req(t, "chunk", FALSE, up[t].fpos, up[t].fpos + n,
                       [NoArgs EXCEPT !.declLo = up[t].offset, !.declHi = end],
                       status)
              r == [Sent(t, q) EXCEPT !.fpos = @ + n]
          IN /\ now' = t1
             /\ SetUp(t,
                  IF status \in {200, 201} THEN Ends(r, "id")
                  ELSE IF status = 202
                  THEN IF up[t].offset + n < up[t].file_size
                       THEN [r EXCEPT !.offset = @ + n]
                       ELSE Ends([r EXCEPT !.offset = @ + n], "None")
                  ELSE IF RaisesForStatus(status) THEN Ends(r, "raised")
                  ELSE r)
  /\ UNCHANGED <<bvars, rvars, xvars, provider, mode, tokVars, opsDone>>

\* DropboxManager.upload_file, lines 452-485: the direct upload
DBX_upload_direct(t) ==
  /\ up[t].pc = "request" /\ up[t].op = "upload_file"
  /\ provider = "dropbox"
  /\ ~(up[t].file_size > DBX_Threshold)
  /\ Exchange(t, "direct", TRUE, 0, up[t].file_size,
              [NoArgs EXCEPT !.names = TRUE], Ends(up[t], "path_display"))

\* DropboxManager._upload_large_file, lines 488-504: upload_session/start
DBX_session_start(t) ==
  /\ up[t].pc = "request" /\ up[t].op = "upload_file"
  /\ provider = "dropbox"
  /\ up[t].file_size > DBX_Threshold
  /\ LET n == ReadLen([up[t] EXCEPT !.fpos = 0], DBX_ChunkSize)
     IN Exchange(t, "start", TRUE, 0, n, NoArgs,
                 [up[t] EXCEPT !.pc = "dbx_chunk", !.offset = n, !.fpos = n])

\* line 509, mutated: a chunk that ends exactly at the end is not the last
IsLast_Strict(offset, n, file_size) == (offset + n) > file_size

\* line 509: is_last = (offset + len(chunk)) >= file_size
IsLast(offset, n, file_size) == (offset + n) >= file_size

\* DropboxManager._upload_large_file, lines 507-551: one turn of the loop,
\* upload_session/finish for the last chunk and append_v2 for the others
DBX_chunk(t) ==
  /\ up[t].pc = "dbx_chunk"
  /\ Len(up[t].calls) < MaxCalls
  /\ LET n == ReadLen(up[t], DBX_ChunkSize)
         cursor == [NoArgs EXCEPT !.cursor = up[t].offset]
         after == [up[t] EXCEPT !.offset = @ + n, !.fpos = @ + n]
     IN IF IsLast(up[t].offset, n, up[t].file_size)
        THEN Exchange(t, "finish", TRUE, up[t].fpos, up[t].fpos + n,
                      [cursor EXCEPT !.names = TRUE], Ends(after, "path_display"))
        ELSE Exchange(t, "append", TRUE, up[t].fpos, up[t].fpos + n, cursor,
                      IF after.offset < up[t].file_size THEN after
                                                        ELSE Ends(after, "None"))

CNext ==
  \E t \in Threads :
    \/ Call(t)
    \/ ensure_valid_token(t)
    \/ refresh_access_token(t)
    \/ list_folders(t)
    \/ GD_upload_session(t)
    \/ GD_upload_put(t)
    \/ OD_upload_direct(t)
    \/ OD_create_session(t)
    \/ OD_chunk(t)
    \/ DBX_upload_direct(t)
    \/ DBX_session_start(t)
    \/ DBX_chunk(t)

(* ------------------------- concurrent backup runs ----------------------- *)
\* what an NTP server may report as the offset of the system clock, in ticks
NtpOffsets == {0 - 3, 0}

\* the process after time_utils was imported: the synchronisation of line 84
\* succeeded or failed
RInit ==
  /\ sysclock = 0
  /\ ntp_offset \in {NoOffset} \cup {Offset(o) : o \in NtpOffsets}
  /\ ntp_last_sync = 0
  /\ run = [r \in RunIds |-> IdleRun]
  /\ snapshots = {}
  /\ writes = {}

\* time passes: a tick, or, between runs, one synchronisation interval
Tick ==
  /\ \E d \in {1, NTP_SYNC_INTERVAL} :
       /\ (d > 1 => \A r \in RunIds : run[r].pc \in {"idle", "done"})
       /\ (sysclock % NTP_SYNC_INTERVAL) + (d % NTP_SYNC_INTERVAL) <= MaxClock
       /\ sysclock + d <= NTP_SYNC_INTERVAL + MaxClock
       /\ sysclock' = sysclock + d
  /\ UNCHANGED <<bvars, cvars, xvars, ntp_offset, ntp_last_sync, run, snapshots, writes>>

\* app.py lines 343-367: start_backup builds a manager and calls backup();
\* nothing keeps a second run of the same site from starting
Run_start(r) ==
  /\ run[r].pc = "idle"
  /\ run' = [run EXCEPT ![r] = [pc |-> "connect", started |-> sysclock, name |-> -1]]
  /\ UNCHANGED <<bvars, cvars, xvars, sysclock, ntp_offset, ntp_last_sync, snapshots, writes>>

\* backup(), lines 132-145 / 488-503: connect and the two pre-flight checks;
\* a failure of any of them ends the run
Run_connect(r) ==
  /\ run[r].pc = "connect"
  /\ \E next \in {"stamp", "done"} : run' = [run EXCEPT ![r].pc = next]
  /\ UNCHANGED <<bvars, cvars, xvars, sysclock, ntp_offset, ntp_last_sync, snapshots, writes>>

\* time_utils.py lines 58-59: get_now() synchronises when no offset is cached
\* or the last synchronisation is older than the interval
NeedsSync == ~ntp_offset.known \/ sysclock - ntp_last_sync > NTP_SYNC_INTERVAL

\* time_utils.py lines 62-66: the clock plus the cached offset, if any
NowWith(offset) == sysclock + (IF offset.known THEN offset.ticks ELSE 0)

\* time_utils.py line 69: the fixed shift from UTC to UTC+3, in ticks
TZShift == 3 * 3600 * TicksPerSecond

\* strftime('%Y%m%d_%H%M%S') of lines 148 / 506: the second an instant lies in
Stamp(instant) == (instant + TZShift) \div TicksPerSecond

\* backup(), lines 148-149 / 506-507: timestamp = get_now().strftime(...),
\* with _sync_ntp (time_utils.py lines 20-45) succeeding or failing
Run_stamp(r) ==
  /\ run[r].pc = "stamp"
  /\ \/ /\ NeedsSync
        /\ \E o \in NtpOffsets : ntp_offset' = Offset(o)
        /\ ntp_last_sync' = sysclock
     \/ UNCHANGED <<ntp_offset, ntp_last_sync>>
  /\ run' = [run EXCEPT ![r].pc = "makedirs", ![r].name = Stamp(NowWith(ntp_offset'))]
  /\ UNCHANGED <<bvars, cvars, xvars, sysclock, snapshots, writes>>

\* download_directory, line 88 / 393: os.makedirs(backup_dir, exist_ok=True)
\* creates the snapshot directory unless it exists already
Run_makedirs(r) ==
  /\ run[r].pc = "makedirs"
  /\ \/ /\ snapshots' = IF \E d \in snapshots : d.name = run[r].name
                         THEN snapshots
                         ELSE snapshots \cup {[name |-> run[r].name, by |-> r]}
        /\ run' = [run EXCEPT ![r].pc = "fetch"]
     \/ /\ snapshots' = snapshots
        /\ run' = [run EXCEPT ![r].pc = "done"]
  /\ UNCHANGED <<bvars, cvars, xvars, sysclock, ntp_offset, ntp_last_sync, writes>>

\* download_directory, lines 98-124 / 448-478: files are written under
\* backup_dir; then backup() returns
Run_fetch(r) ==
  /\ run[r].pc = "fetch"
  /\ \/ writes' = writes \cup {[run |-> r, name |-> run[r].name]}
     \/ writes' = writes
  /\ run' = [run EXCEPT ![r].pc = "done"]
  /\ UNCHANGED <<bvars, cvars, xvars, sysclock, ntp_offset, ntp_last_sync, snapshots>>

RNext ==
  \/ Tick
  \/ \E r \in RunIds :
       \/ Run_start(r)
       \/ Run_connect(r)
       \/ Run_stamp(r)
       \/ Run_makedirs(r)
       \/ Run_fetch(r)

(* ------------------------- construction by tag -------------------------- *)
\* str.upper() on one character
UpperChar(c) ==
  IF \E i \in DOMAIN LowerChars : LowerChars[i] = c
  THEN UpperChars[CHOOSE i \in DOMAIN LowerChars : LowerChars[i] = c]
  ELSE c

\* str.upper()
StrUpper(s) == [i \in DOMAIN s |-> UpperChar(s[i])]

\* the tags a caller may hand to a factory
Tags ==
  { <<"S","S","H">>, <<"s","s","h">>, <<"S","s","h">>,
    <<"F","T","P">>, <<"f","t","p">>, <<"F","t","P">>,
    <<"S","F","T","P">>, <<"s","f","t","p">>, <<"F","T","P","S">>,
    <<"H","T","T","P">>, <<"S","S","H"," ">>, <<>>,
    <<"g","o","o","g","l","e","_","d","r","i","v","e">>,
    <<"G","o","o","g","l","e","_","D","r","i","v","e">>,
    <<"o","n","e","d","r","i","v","e">>, <<"O","N","E","D","R","I","V","E">>,
    <<"d","r","o","p","b","o","x">>, <<"D","r","o","p","b","o","x">>,
    <<"s","3">> }

\* backup_manager.py lines 530-535, mutated: the tag is compared as it is
get_backup_manager_AsWritten(protocol) ==
  IF protocol = <<"S","S","H">> THEN "SSHBackupManager"
  ELSE IF protocol = <<"F","T","P">> THEN "FTPBackupManager"
  ELSE "ValueError"

\* backup_manager.py lines 527-535: the class built, or the exception raised
get_backup_manager(protocol) ==
  IF StrUpper(protocol) = <<"S","S","H">> THEN "SSHBackupManager"
  ELSE IF StrUpper(protocol) = <<"F","T","P">> THEN "FTPBackupManager"
  ELSE "ValueError"

\* cloud_storage.py lines 555-559
PROVIDERS ==
  { [tag |-> <<"g","o","o","g","l","e","_","d","r","i","v","e">>,
     cls |-> "GoogleDriveManager"],
    [tag |-> <<"o","n","e","d","r","i","v","e">>, cls |-> "OneDriveManager"],
    [tag |-> <<"d","r","o","p","b","o","x">>, cls |-> "DropboxManager"] }

\* cloud_storage.py lines 562-567: PROVIDERS.get(provider), ValueError if None
get_cloud_manager(tag) ==
  IF \E e \in PROVIDERS : e.tag = tag
  THEN (CHOOSE e \in PROVIDERS : e.tag = tag).cls
  ELSE "ValueError"

\* a caller is about to build a manager: a direct call of a factory, the
\* route start_backup, or the scheduler's run_scheduled_backup for a site
\* that is active or not
XInit ==
  /\ made \in [entry : {"get_backup_manager", "get_cloud_manager",
                        "start_backup", "run_scheduled_backup"},
               tag : Tags, active : BOOLEAN, pc : {"call"},
               result : {"none"}, history : {"none"}]
  /\ (made.entry # "run_scheduled_backup" => made.active)
  /\ arch = [pc |-> "idle", files |-> [f \in SnapFiles |-> "absent"],
             out |-> "none", zip |-> "none"]
  /\ YIdle

\* a direct call of get_backup_manager
Factory_backup ==
  /\ made.pc = "call" /\ made.entry = "get_backup_manager"
  /\ made' = [made EXCEPT !.result = get_backup_manager(made.tag), !.pc = "done"]
  /\ UNCHANGED <<bvars, cvars, rvars, arch, yvars>>

\* a direct call of get_cloud_manager
Factory_cloud ==
  /\ made.pc = "call" /\ made.entry = "get_cloud_manager"
  /\ made' = [made EXCEPT !.result = get_cloud_manager(made.tag), !.pc = "done"]
  /\ UNCHANGED <<bvars, cvars, rvars, arch, yvars>>

\* what manager.backup() hands back (backup_manager.py lines 120-174 /
\* 476-525): a snapshot path with its counters, or a message with 0, 0
BackupReturns ==
  {Returned(TRUE, <<"snapshot">>, fc, tb) : fc \in 0..NumNodes, tb \in 0..(NumNodes * MaxSize)}
    \cup {Returned(FALSE, m, 0, 0) :
            m \in {<<"Authentication failed. Check credentials.">>,
                   <<"Backup failed: ", "connection lost">>}}

\* app.py lines 372-381 / 609-620, mutated: completed_at is set in the
\* success branch only
RowAfter_CompletedOnSuccess(row, got) ==
  IF got.success
  THEN [row EXCEPT !.status = "success", !.backup_path = got.msg,
                   !.file_count = got.file_count,
                   !.size_bytes = got.total_bytes,
                   !.completed_at = "now"]
  ELSE [row EXCEPT !.status = "failed", !.error_message = got.msg]

\* app.py lines 372-381 / 609-620: the row after manager.backup() returned
RowAfter(row, got) ==
  [(IF got.success
    THEN [row EXCEPT !.status = "success", !.backup_path = got.msg,
                     !.file_count = got.file_count,
                     !.size_bytes = got.total_bytes]
    ELSE [row EXCEPT !.status = "failed", !.error_message = got.msg])
   EXCEPT !.completed_at = "now"]

\* app.py lines 392-396 / 628-632: the row after an exception of the try block
RowAfterRaise(row, text) ==
  [row EXCEPT !.status = "failed", !.error_message = text,
              !.completed_at = "now"]

\* the row is given a status
Recorded(h, row) == [h EXCEPT !.row = row, !.trail = Append(@, row.status)]

\* app.py lines 346-353 / 580-592: the BackupHistory row with status
\* 'running'; the scheduler skips a site that is inactive or gone
Run_history ==
  /\ made.pc = "call" /\ made.entry \in {"start_backup", "run_scheduled_backup"}
  /\ made' = IF made.active
             THEN [made EXCEPT !.history = "running", !.pc = "manager"]
             ELSE [made EXCEPT !.pc = "done"]
  /\ history' = IF made.active THEN Recorded(history, NewRow) ELSE history
  /\ UNCHANGED <<bvars, cvars, rvars, arch, connects, svars>>

\* app.py lines 357-365 / 594-602 and the handler of lines 381-385 / 628-632:
\* the ValueError of the factory is caught, the row becomes 'failed'
\* decrypt_password (utils.py lines 41-50, 64-67) raises on a stored password
\* that is not a token of the key; then the factory is not called
Run_manager ==
  /\ made.pc = "manager"
  /\ \/ LET m == get_backup_manager(made.tag)
        IN IF m = "ValueError"
           THEN /\ made' = [made EXCEPT !.result = m, !.history = "failed", !.pc = "done"]
                /\ history' = Recorded([history EXCEPT !.got.state = "raised"],
                                       RowAfterRaise(history.row,
                                          <<"Unsupported protocol: ", made.tag>>))
           ELSE /\ made' = [made EXCEPT !.result = m, !.pc = "backup"]
                /\ history' = history
     \/ /\ made' = [made EXCEPT !.history = "failed", !.pc = "done"]
        /\ history' = Recorded([history EXCEPT !.got.state = "raised"],
                               RowAfterRaise(history.row, <<"InvalidToken">>))
  /\ UNCHANGED <<bvars, cvars, rvars, arch, connects, svars>>

\* app.py lines 367-379 / 604-626: manager.backup() and the status it gives
Run_backup ==
  /\ made.pc = "backup"
  /\ \E got \in BackupReturns :
       /\ history' = Recorded([history EXCEPT !.got = got],
                              RowAfter(history.row, got))
       /\ made' = [made EXCEPT !.history = history'.row.status, !.pc = "done"]
  /\ UNCHANGED <<bvars, cvars, rvars, arch, connects, svars>>

(* ------------------------------ archiving ------------------------------- *)
\* where zip_directory writes the archive: beside the snapshot directory (the
\* default f"{source_dir}.zip"), or an output_path that is a new name inside
\* the snapshot directory
ZipTargets == {"beside", "inside"}

\* a finished snapshot is about to be archived and uploaded
AInit ==
  /\ made = [entry |-> "none", tag |-> <<>>, active |-> FALSE, pc |-> "idle",
             result |-> "none", history |-> "none"]
  /\ arch = [pc |-> "start", files |-> [f \in SnapFiles |-> "fetched"],
             out |-> "none", zip |-> "none"]
  /\ YIdle

\* line 580, mutated: a file is removed once it is in the archive
FilesAfterZip_Moved(files, written) ==
  [f \in SnapFiles |-> IF f \in written THEN "absent" ELSE files[f]]

\* lines 576-580: os.walk and zf.write(file_path, arcname) read the files that
\* were added to the archive and leave them where they are
FilesAfterZip(files, written) == files

\* cloud_storage.py lines 570-582: zip_directory; the archive is complete when
\* every file was written, and left partial when writing raised
zip_directory ==
  /\ arch.pc = "start"
  /\ \E out \in ZipTargets, written \in SUBSET SnapFiles :
       arch' = [arch EXCEPT
                  !.out = out,
                  !.files = FilesAfterZip(@, written),
                  !.zip = IF written = SnapFiles THEN "complete" ELSE "partial",
                  !.pc = IF written = SnapFiles THEN "returned" ELSE "raised"]
  /\ UNCHANGED <<bvars, cvars, rvars, made, yvars>>

(* ---------------------------- scheduler.py ------------------------------ *)
\* the process's local time zone: UTC, or the scheduler's own
LocalOffsets == {0, IstanbulOffset}

\* interval_type values: two keywords of timedelta, and one that is none
IntervalTypes == {"hours", "days", "months"}

\* lines 57, 90, 108, 121, 137: f"backup_site_{site_id}"
job_id(site_id) == <<"backup_site_", site_id>>

\* line 66, 75: timedelta(**{interval_type: interval_value}), in hours;
\* TypeError for a keyword timedelta does not have
TimedeltaRaises(interval_type) == interval_type \notin {"hours", "days"}
timedelta(interval_type, interval_value) ==
  IF interval_type = "hours" THEN interval_value ELSE 24 * interval_value

\* line 75: datetime.now(), the naive wall clock of the process
datetime_now == hours + tzlocal

\* the instant a naive datetime names for a scheduler built with
\* timezone='Europe/Istanbul' (line 20)
Localize(naive) == naive - IstanbulOffset

\* the job with an id, if the scheduler holds one
HasJob(js, id) == \E j \in js : j.id = id
JobOf(js, id) == CHOOSE j \in js : j.id = id

\* scheduler.remove_job(job_id): the jobs after it; JobLookupError when
\* there is none
remove_job(js, id) == {j \in js : j.id # id}

\* scheduler.add_job(..., replace_existing=True)
add_job(js, job) == {j \in js : j.id # job.id} \cup {job}

\* lines 69-77: the job add_backup_job hands to the scheduler; the interval
\* trigger starts counting one interval after now
NewJob(site_id, interval_type, interval_value) ==
  LET d == timedelta(interval_type, interval_value)
  IN [id |-> job_id(site_id), args |-> site_id, interval |-> d,
      start_date |-> hours + d,
      next_run_time |-> RetTime(Localize(datetime_now + d))]

\* the next fire time of an interval trigger at or after now
NextFire(job) ==
  IF job.start_date >= hours THEN job.start_date
  ELSE job.start_date
         + (((hours - job.start_date) + job.interval - 1) \div job.interval)
             * job.interval

\* the record of a call: what it was given, returned and did
Api(op, site, val, exc, lib) ==
  [called EXCEPT !.op = op, !.site = site, !.ret = val, !.raised = exc,
                 !.lib = lib, !.n = @ + 1]

\* the job of a site was reached by a call
Reached(c, site, op, interval) ==
  [c EXCEPT !.last[site] = [op |-> op, interval |-> interval, at |-> hours]]

\* lines 10-23: init_scheduler, called when app.py is imported (line 46)
init_scheduler ==
  /\ ~scheduler.init
  /\ scheduler' = [init |-> TRUE, running |-> FALSE]
  /\ called' = [Api("init_scheduler", 0, NoRet0, FALSE, "none") EXCEPT !.n = called.n]
  /\ UNCHANGED <<bvars, cvars, rvars, made, arch, connects, history,
                 jobs, hours, tzlocal, sites, fired>>

\* line 29, mutated: start() is called whenever the scheduler was built
StartGuard_Initialised(s) == s.init

\* line 29: if scheduler and not scheduler.running
StartGuard(s) == s.init /\ ~s.running

\* lines 26-31
start_scheduler ==
  /\ called.n < MaxApiCalls
  /\ IF StartGuard(scheduler)
     THEN /\ scheduler' = [scheduler EXCEPT !.running = TRUE]
          /\ called' = Api("start_scheduler", 0, RetNone, scheduler.running, "start")
     ELSE /\ scheduler' = scheduler
          /\ called' = Api("start_scheduler", 0, RetNone, FALSE, "none")
  /\ UNCHANGED <<bvars, cvars, rvars, made, arch, connects, history,
                 jobs, hours, tzlocal, sites, fired>>

\* lines 34-39
stop_scheduler ==
  /\ called.n < MaxApiCalls
  /\ IF scheduler.init /\ scheduler.running
     THEN /\ scheduler' = [scheduler EXCEPT !.running = FALSE]
          /\ called' = Api("stop_scheduler", 0, RetNone, FALSE, "shutdown")
     ELSE /\ scheduler' = scheduler
          /\ called' = Api("stop_scheduler", 0, RetNone, FALSE, "none")
  /\ UNCHANGED <<bvars, cvars, rvars, made, arch, connects, history,
                 jobs, hours, tzlocal, sites, fired>>

\* lines 42-80: the job of the site is removed if there is one, then the new
\* one is built and added; a TypeError of timedelta leaves after the removal
add_backup_job(site_id, interval_type, interval_value) ==
  IF ~scheduler.init
  THEN /\ called' = Api("add_backup_job", site_id, RetBool(FALSE), FALSE, "none")
       /\ jobs' = jobs
  ELSE IF TimedeltaRaises(interval_type)
  THEN /\ jobs' = remove_job(jobs, job_id(site_id))
       /\ called' = Reached(Api("add_backup_job", site_id, NoRet0, TRUE, "remove_job"),
                            site_id, "add_raised", 0)
  ELSE /\ jobs' = add_job(remove_job(jobs, job_id(site_id)),
                          NewJob(site_id, interval_type, interval_value))
       /\ called' = Reached(Api("add_backup_job", site_id, RetBool(TRUE), FALSE, "add_job"),
                            site_id, "add", timedelta(interval_type, interval_value))

\* lines 83-98
remove_backup_job(site_id) ==
  IF ~scheduler.init
  THEN /\ called' = Api("remove_backup_job", site_id, RetBool(FALSE), FALSE, "none")
       /\ jobs' = jobs
  ELSE IF HasJob(jobs, job_id(site_id))
  THEN /\ jobs' = remove_job(jobs, job_id(site_id))
       /\ called' = Reached(Api("remove_backup_job", site_id, RetBool(TRUE), FALSE, "remove_job"),
                            site_id, "remove", 0)
  ELSE /\ jobs' = jobs
       /\ called' = Reached(Api("remove_backup_job", site_id, RetBool(FALSE), FALSE, "remove_job"),
                            site_id, "remove", 0)

\* lines 101-111
get_next_run_time(site_id) ==
  /\ jobs' = jobs
  /\ called' =
       IF ~scheduler.init
       THEN Api("get_next_run_time", site_id, RetNone, FALSE, "none")
       ELSE Api("get_next_run_time", site_id,
                 IF HasJob(jobs, job_id(site_id))
                 THEN JobOf(jobs, job_id(site_id)).next_run_time ELSE RetNone,
                 FALSE, "get_job")

\* lines 114-127: a paused job has no next run time
pause_backup_job(site_id) ==
  IF ~scheduler.init
  THEN /\ called' = Api("pause_backup_job", site_id, RetBool(FALSE), FALSE, "none")
       /\ jobs' = jobs
  ELSE IF HasJob(jobs, job_id(site_id))
  THEN /\ jobs' = add_job(jobs, [JobOf(jobs, job_id(site_id))
                                   EXCEPT !.next_run_time = RetNone])
       /\ called' = Reached(Api("pause_backup_job", site_id, RetBool(TRUE), FALSE, "pause_job"),
                            site_id, "pause", 0)
  ELSE /\ jobs' = jobs
       /\ called' = Api("pause_backup_job", site_id, RetBool(FALSE), FALSE, "pause_job")

\* lines 130-143: the job gets the next fire time of its trigger
resume_backup_job(site_id) ==
  IF ~scheduler.init
  THEN /\ called' = Api("resume_backup_job", site_id, RetBool(FALSE), FALSE, "none")
       /\ jobs' = jobs
  ELSE IF HasJob(jobs, job_id(site_id))
  THEN /\ jobs' = add_job(jobs, [JobOf(jobs, job_id(site_id))
                                   EXCEPT !.next_run_time =
                                     RetTime(NextFire(JobOf(jobs, job_id(site_id))))])
       /\ called' = Reached(Api("resume_backup_job", site_id, RetBool(TRUE), FALSE, "resume_job"),
                            site_id, "resume", 0)
  ELSE /\ jobs' = jobs
       /\ called' = Api("resume_backup_job", site_id, RetBool(FALSE), FALSE, "resume_job")

\* a caller of the five functions that take a site
Sched_add ==
  /\ called.n < MaxApiCalls
  /\ \E s \in SiteIds, ty \in IntervalTypes, v \in 1..MaxValue : add_backup_job(s, ty, v)
  /\ UNCHANGED <<bvars, cvars, rvars, made, arch, connects, history,
                 scheduler, hours, tzlocal, sites, fired>>
Sched_remove ==
  /\ called.n < MaxApiCalls
  /\ \E s \in SiteIds : remove_backup_job(s)
  /\ UNCHANGED <<bvars, cvars, rvars, made, arch, connects, history,
                 scheduler, hours, tzlocal, sites, fired>>
Sched_next_run ==
  /\ called.n < MaxApiCalls
  /\ \E s \in SiteIds : get_next_run_time(s)
  /\ UNCHANGED <<bvars, cvars, rvars, made, arch, connects, history,
                 scheduler, hours, tzlocal, sites, fired>>
Sched_pause ==
  /\ called.n < MaxApiCalls
  /\ \E s \in SiteIds : pause_backup_job(s)
  /\ UNCHANGED <<bvars, cvars, rvars, made, arch, connects, history,
                 scheduler, hours, tzlocal, sites, fired>>
Sched_resume ==
  /\ called.n < MaxApiCalls
  /\ \E s \in SiteIds : resume_backup_job(s)
  /\ UNCHANGED <<bvars, cvars, rvars, made, arch, connects, history,
                 scheduler, hours, tzlocal, sites, fired>>

\* an hour passes
Sched_tick ==
  /\ hours < MaxHours
  /\ hours' = hours + 1
  /\ UNCHANGED <<bvars, cvars, rvars, made, arch, connects, history,
                 scheduler, jobs, tzlocal, called, sites, fired>>

\* the process starts in some time zone, nothing is scheduled
InitSched ==
  /\ BIdle /\ CIdle /\ RIdle
  /\ made = [entry |-> "none", tag |-> <<>>, active |-> FALSE, pc |-> "idle",
             result |-> "none", history |-> "none"]
  /\ arch = [pc |-> "idle", files |-> [f \in SnapFiles |-> "absent"],
             out |-> "none", zip |-> "none"]
  /\ connects = 0 /\ history = NoHistory
  /\ scheduler \in {[init |-> FALSE, running |-> FALSE],
                    [init |-> TRUE, running |-> TRUE]}
  /\ jobs = {}
  /\ hours = 0
  /\ tzlocal \in LocalOffsets
  /\ called = NoCall
  /\ sites = [s \in SiteIds |-> "absent"]
  /\ fired = NoRun

NextSched ==
  \/ init_scheduler
  \/ start_scheduler
  \/ stop_scheduler
  \/ Sched_add
  \/ Sched_remove
  \/ Sched_next_run
  \/ Sched_pause
  \/ Sched_resume
  \/ Sched_tick

(* ------------------ app.py: the site routes and the trigger ------------- *)
\* what Site.query.get(site_id) finds
RowOf(state) ==
  CASE state \in {"absent", "deleted"} -> "absent"
    [] state \in {"active", "active_removing"} -> "active"
    [] OTHER -> "inactive"

\* lines 205-247: create_site with a schedule; the job is added after the
\* site and its schedule were committed
Site_create ==
  /\ \E s \in SiteIds, ty \in IntervalTypes, v \in 1..MaxValue :
       /\ sites[s] = "absent"
       /\ sites' = [sites EXCEPT ![s] = "active"]
       /\ add_backup_job(s, ty, v)
  /\ UNCHANGED <<bvars, cvars, rvars, made, arch, connects, history,
                 scheduler, hours, tzlocal, fired>>

\* lines 255-302: update_site with is_active alone
Site_update ==
  /\ \E s \in SiteIds, is_active \in BOOLEAN :
       /\ sites[s] \in {"active", "inactive"}
       /\ sites' = [sites EXCEPT ![s] = IF is_active THEN "active" ELSE "inactive"]
  /\ UNCHANGED <<bvars, cvars, rvars, made, arch, connects, history,
                 scheduler, jobs, hours, tzlocal, called, fired>>

\* lines 307-310: delete_site finds the site and removes its job
Site_delete_remove ==
  /\ \E s \in SiteIds :
       /\ sites[s] \in {"active", "inactive"}
       /\ sites' = [sites EXCEPT ![s] = IF @ = "active" THEN "active_removing"
                                                       ELSE "inactive_removing"]
       /\ remove_backup_job(s)
  /\ UNCHANGED <<bvars, cvars, rvars, made, arch, connects, history,
                 scheduler, hours, tzlocal, fired>>

\* lines 312-313: the site is deleted and the deletion committed
Site_delete_commit ==
  /\ \E s \in SiteIds :
       /\ sites[s] \in {"active_removing", "inactive_removing"}
       /\ sites' = [sites EXCEPT ![s] = "deleted"]
  /\ UNCHANGED <<bvars, cvars, rvars, made, arch, connects, history,
                 scheduler, jobs, hours, tzlocal, called, fired>>

\* the running scheduler hands a job that has a run time to its executor;
\* when that time comes is left open
Trigger_fire ==
  /\ scheduler.running
  /\ fired.pc = "idle"
  /\ \E j \in jobs :
       /\ j.next_run_time.kind = "time"
       /\ fired' = [NoRun EXCEPT !.pc = "submitted", !.site = j.args]
  /\ UNCHANGED <<bvars, cvars, rvars, made, arch, connects, history,
                 scheduler, jobs, hours, tzlocal, called, sites>>

\* line 581, mutated: only a missing site is skipped
RunsSite_Exists(row) == row # "absent"

\* line 581: if not site or not site.is_active: return
RunsSite(row) == row = "active"

\* lines 579-583: run_scheduled_backup reads the site
Trigger_read ==
  /\ fired.pc = "submitted"
  /\ fired' = [fired EXCEPT !.readAs = RowOf(sites[fired.site]),
                            !.pc = IF RunsSite(RowOf(sites[fired.site]))
                                   THEN "history" ELSE "done"]
  /\ UNCHANGED <<bvars, cvars, rvars, made, arch, connects, history,
                 scheduler, jobs, hours, tzlocal, called, sites>>

\* lines 587-592: the BackupHistory row
Trigger_history ==
  /\ fired.pc = "history"
  /\ fired' = [fired EXCEPT !.row = TRUE, !.pc = "manager"]
  /\ UNCHANGED <<bvars, cvars, rvars, made, arch, connects, history,
                 scheduler, jobs, hours, tzlocal, called, sites>>

\* lines 594-602: get_backup_manager
Trigger_manager ==
  /\ fired.pc = "manager"
  /\ fired' = [fired EXCEPT !.manager = TRUE, !.pc = "backup"]
  /\ UNCHANGED <<bvars, cvars, rvars, made, arch, connects, history,
                 scheduler, jobs, hours, tzlocal, called, sites>>

\* lines 604-607: manager.backup() connects and fetches
Trigger_backup ==
  /\ fired.pc = "backup"
  /\ fired' = [fired EXCEPT !.fetch = TRUE, !.pc = "done"]
  /\ UNCHANGED <<bvars, cvars, rvars, made, arch, connects, history,
                 scheduler, jobs, hours, tzlocal, called, sites>>

\* run_scheduled_backup has returned
Trigger_return ==
  /\ fired.pc = "done"
  /\ fired' = NoRun
  /\ UNCHANGED <<bvars, cvars, rvars, made, arch, connects, history,
                 scheduler, jobs, hours, tzlocal, called, sites>>

\* app.py run as a program: the scheduler was built at line 46 and started
\* at line 638; no site exists yet
InitSites ==
  /\ InitSched
  /\ scheduler = [init |-> TRUE, running |-> TRUE]

NextSites ==
  \/ Site_create
  \/ Site_update
  \/ Site_delete_remove
  \/ Site_delete_commit
  \/ Trigger_fire
  \/ Trigger_read
  \/ Trigger_history
  \/ Trigger_manager
  \/ Trigger_backup
  \/ Trigger_return

(* --------------- a caller that calls connect() more than once ----------- *)
\* connect() is called on the manager, a first time or again after an
\* earlier call returned: lines 26-55 / 186-205 start over on the fields the
\* earlier call left
Caller_connect ==
  /\ pc \in {"start", "after_connect"}
  /\ connects < MaxConnects
  /\ connects' = connects + 1
  /\ pc' = "connect"
  /\ ftpsRet' = NoRet /\ plainRet' = NoRet /\ connRet' = NoRet
  /\ wire' = <<>>
  /\ UNCHANGED <<cvars, rvars, made, arch, history, svars, progress, cwdVars, sent, discVars,
                 proto, cfg, mgrVars, plainCalls, fsVars, walkVars, ret>>

\* disconnect() is called after a connect() that returned
Caller_release ==
  /\ pc = "after_connect"
  /\ disconnects < MaxDisconnects
  /\ Disconnect
  /\ pc' = pc
  /\ UNCHANGED <<cvars, rvars, xvars, hvars, original_dir, sent, proto, cfg, ftps_error,
                 connVars, fsVars, walkVars, ret>>

NextReconnect ==
  \/ Caller_connect
  \/ Caller_release
  \/ SSH_connect_begin
  \/ SSH_client_connect
  \/ SSH_open_sftp
  \/ FTP__connect_ftps_connect
  \/ FTP__connect_ftps_auth
  \/ FTP__connect_ftps_login
  \/ FTP__connect_ftps_prot_p
  \/ FTP_connect_decide
  \/ FTP__connect_plain_connect
  \/ FTP__connect_plain_login
  \/ FTP_connect_return

(* ---------------------------- specifications ---------------------------- *)
vars == <<bvars, cvars, rvars, xvars>>

\* one backup() call on a freshly built backup manager
Init == BInit /\ CIdle /\ RIdle /\ XIdle
Next == BNext
Spec == Init /\ [][Next]_vars

\* operations on a cloud manager holding stored tokens
InitCloud == BIdle /\ CInit /\ RIdle /\ XIdle
NextCloud == CNext
SpecCloud == InitCloud /\ [][NextCloud]_vars

\* one backup manager whose owner calls backup() and disconnect()
NextDisconnect == BNext \/ Caller_disconnect
SpecDisconnect == Init /\ [][NextDisconnect]_vars

\* the backup runs of one site, in one process
InitRuns == BIdle /\ CIdle /\ RInit /\ XIdle
NextRuns == RNext
SpecRuns == InitRuns /\ [][NextRuns]_vars

\* one backup manager whose owner calls connect() and disconnect() itself
SpecReconnect == Init /\ [][NextReconnect]_vars

\* the functions of scheduler.py, called in any order
InitSchedApi == InitSched /\ ~scheduler.init
SpecSched == InitSchedApi /\ [][NextSched]_vars

\* the site routes and the firings of the running scheduler, interleaved
SpecSites == InitSites /\ [][NextSites]_vars

\* either of the two
InitAll == Init \/ InitCloud
NextAll == BNext \/ CNext
SpecAll == InitAll /\ [][NextAll]_vars

\* a finished snapshot, zip_directory and the calls of one cloud manager, which
\* open the file they upload for reading only; the manager holds a refresh
\* token and an access token that has expired
InitArchive ==
  /\ BIdle /\ CInit /\ RIdle /\ AInit
  /\ mode = "sequential"
  /\ refresh_token = 0
  /\ token_expiry = [form |-> "datetime", at |-> 1]
NextArchive == zip_directory \/ CNext
SpecArchive == InitArchive /\ [][NextArchive]_vars

\* one call that builds a manager from a tag
InitFactory == BIdle /\ CIdle /\ RIdle /\ XInit
NextFactory ==
  \/ Factory_backup
  \/ Factory_cloud
  \/ Run_history
  \/ Run_manager
  \/ Run_backup
SpecFactory == InitFactory /\ [][NextFactory]_vars

\* The walk alone: backup() has connected (SFTP with a password, or FTP over
\* TLS), made the snapshot directory and calls download_directory (lines 153 /
\* 512).  The code is straight-line and run by one thread: the step it has
\* reached is taken.
WalkStart ==
  /\ proto \in {"SSH", "FTP"}
  /\ cfg = [key |-> FALSE, keyfile |-> FALSE, password |-> TRUE]
  /\ pc = "dd_enter"
  /\ client = (IF proto = "SSH" THEN "obj" ELSE "None")
  /\ sftp = (IF proto = "SSH" THEN "obj" ELSE "None")
  /\ ftp = (IF proto = "SSH" THEN "None" ELSE "ftps")
  /\ sock = [ssh |-> IF proto = "SSH" THEN "open" ELSE "none",
             ftps |-> IF proto = "SSH" THEN "none" ELSE "open",
             plain |-> "none"]
  /\ use_tls = (proto = "FTP")
  /\ ftps_error = NoMsg
  /\ ftpsRet = (IF proto = "SSH" THEN NoRet
                ELSE Ret(TRUE, <<"Guvenli baglanti basarili (FTPS/TLS): ", "welcome">>))
  /\ plainRet = NoRet
  /\ connRet = (IF proto = "SSH" THEN Ret(TRUE, <<"Connected successfully">>)
                ELSE ftpsRet)
  /\ plainCalls = 0
  /\ localRoot = "writable"
  /\ madeDirs = {}
  /\ localFiles = [n \in Nodes |-> -1]
  /\ stack = <<NewFrame(0)>>
  /\ listed = [n \in Nodes |-> NoEntry]
  /\ outcome = [n \in 0..NumNodes |-> "none"]
  /\ ret = NoResult
  /\ ftp_cwd = Home
  /\ original_dir = Unset
  /\ sent = [n \in 0..NumNodes |-> NoneSent]
  /\ disconnects = 0
  /\ discRaised = FALSE
  /\ wire = <<>>
  /\ progress = <<>>
InitWalk == WalkStart /\ CIdle /\ RIdle /\ XIdle
NextWalk ==
  \/ DD_enter
  \/ SSH_DD_list
  \/ FTP_DD_mlsd
  \/ FTP_DD_cwd
  \/ FTP_DD_listcmd
  \/ DD_item
  \/ DD_return
  \/ Backup_return
  \/ Backup_finally
SpecWalk == InitWalk /\ [][NextWalk]_vars /\ WF_vars(NextWalk)

(* ============================ the claims ================================ *)
(* ------------------------------ fetch totals ---------------------------- *)
\* the remote files this run fetched
Fetched == {n \in Nodes : outcome[n] \in {"fetched", "fetched_callback_raised"}}

RECURSIVE SumSizes(_)
\* the sum of the sizes the server reported for the files of S
SumSizes(S) ==
  IF S = {} THEN 0
  ELSE LET n == CHOOSE x \in S : TRUE IN listed[n].size + SumSizes(S \ {n})

\* the listing of directory d succeeded
WasListed(d) == outcome[d] \in {"listed", "listed_by_LIST"}

\* C1: a successful backup() returns file_count = the number of fetched files
\* and total_bytes = the sum of their sizes; a directory whose listing failed
\* or raised contributes nothing, and every entry of a listed directory was
\* processed, whatever happened to the entries before it.
C1_FetchTotals ==
  (pc = "done" /\ ret.success) =>
     /\ ret.file_count = Cardinality(Fetched)
     /\ ret.total_bytes = SumSizes(Fetched)
     /\ \A n \in Nodes : WasListed(Parent(n)) => outcome[n] # "none"
     /\ \A n \in Nodes : ~WasListed(Parent(n)) => outcome[n] = "none"

\* the first entry is a directory whose listing failed, the entry after it
\* was fetched and counted
C1_Witness ==
  /\ pc = "done" /\ ret.success
  /\ outcome[1] = "list_failed"
  /\ outcome[2] = "fetched"
  /\ ret.file_count = 1 /\ ret.total_bytes = MaxSize

(* -------------------------- FTP plaintext fallback ---------------------- *)
\* the markers as the claim lists them
MandatoryTlsMarkers ==
  { <<"4","2","1">>, <<"t","l","s">>, <<"s","s","l">>,
    <<"s","e","c","u","r","e">>, <<"c","l","e","a","r","t","e","x","t">> }

\* message contains marker m, letters compared without regard to case
ContainsIgnoringCase(m, message) ==
  \E i \in 1..(Len(message) - Len(m) + 1) :
     \A j \in 1..Len(m) : LowerChar(message[i + j - 1]) = LowerChar(m[j])

MentionsMandatoryTls(message) ==
  \E m \in MandatoryTlsMarkers : ContainsIgnoringCase(m, message)

\* C2: when connect() of the FTP manager returns: after a successful TLS
\* attempt the plaintext fallback was never called; after a failed one whose
\* message holds a marker it was never called and connect returned failure
\* with that message; after a failed one without marker it was called exactly
\* once and connect returned its result.
C2_PlainFallback ==
  (proto = "FTP" /\ pc = "after_connect") =>
     IF ftpsRet.ok
     THEN plainCalls = 0 /\ connRet = ftpsRet
     ELSE IF MentionsMandatoryTls(ftpsRet.msg)
          THEN /\ plainCalls = 0 /\ plainRet = NoRet
               /\ ~connRet.ok
               /\ StrIn(ftpsRet.msg, connRet.msg)
          ELSE /\ plainCalls = 1
               /\ plainRet.set /\ connRet = plainRet

\* the server refused with "TLS needed": a marker in upper case, no fallback
C2_Witness ==
  /\ proto = "FTP" /\ pc = "after_connect"
  /\ ftpsRet = Ret(FALSE, FtpsErrorMsg([type |-> "error_perm", name |-> <<>>,
                                        text |-> TTLS]))
  /\ plainCalls = 0 /\ ~connRet.ok

(* --------------------------- dropbox large upload ----------------------- *)
\* thread record r is a Dropbox upload through an upload session
DbxLarge(r) ==
  provider = "dropbox" /\ r.op = "upload_file" /\ r.file_size > DBX_Threshold

RECURSIVE BytesSent(_, _)
\* the bytes carried by the first k requests of a log
BytesSent(calls, k) ==
  IF k = 0 THEN 0
  ELSE (calls[k].hi - calls[k].lo) + BytesSent(calls, k - 1)

\* C3: in a Dropbox session upload of a file of S bytes every call carries
\* the bytes that start where the earlier calls ended (no gap, no overlap,
\* nothing beyond S), the cursor of every append/finish call is the number of
\* bytes the earlier calls sent, the call carrying byte S-1 is the finish
\* call, the finish call is the last call and the only one naming the path,
\* and an upload that returned ended with it, having sent all of [0, S).
C3_CursorPartition ==
  \A t \in Threads : DbxLarge(up[t]) =>
    LET c == up[t].calls
        S == up[t].file_size
    IN /\ \A i \in DOMAIN c :
            /\ c[i].kind \in {"start", "append", "finish"}
            /\ (c[i].kind = "start" <=> i = 1)
            /\ c[i].lo = BytesSent(c, i - 1)
            /\ c[i].lo < c[i].hi /\ c[i].hi <= S
            /\ (i > 1 => c[i].cursor = BytesSent(c, i - 1))
            /\ (c[i].hi = S <=> c[i].kind = "finish")
            /\ (c[i].names <=> c[i].kind = "finish")
            /\ (c[i].kind = "finish" => i = Len(c))
       /\ (up[t].pc = "done" /\ up[t].result # "raised") =>
            /\ c # <<>>
            /\ c[Len(c)].kind = "finish"
            /\ BytesSent(c, Len(c)) = S

\* a file of a whole number of chunks went up: start, appends, finish
C3_Witness ==
  /\ DbxLarge(up[1])
  /\ up[1].file_size = (DBX_Threshold \div DBX_ChunkSize + 1) * DBX_ChunkSize
  /\ up[1].pc = "done" /\ up[1].result = "path_display"
  /\ Len(up[1].calls) = DBX_Threshold \div DBX_ChunkSize + 1

(* --------------------------- onedrive large upload ---------------------- *)
\* thread record r is a OneDrive upload through an upload session
OdLarge(r) ==
  provider = "onedrive" /\ r.op = "upload_file" /\ r.file_size > OD_Threshold

\* the chunk PUTs of a log, in call order
ChunkPuts(calls) == SelectSeq(calls, LAMBDA q : q.kind = "chunk")

\* C4: in a OneDrive session upload, under every sequence of answers, every
\* chunk PUT declares the range that starts at the current offset and its body
\* is exactly the file bytes of that range; the offset never decreases and
\* moves only past a chunk the server answered with 202.
C4_ChunkRanges ==
  \A t \in Threads : OdLarge(up[t]) =>
    LET c == ChunkPuts(up[t].calls)
    IN /\ \A i \in DOMAIN c :
            /\ c[i].lo = c[i].declLo
            /\ c[i].hi - 1 = c[i].declHi
       /\ \A i \in DOMAIN c : i < Len(c) =>
            /\ c[i + 1].declLo >= c[i].declLo
            /\ (c[i + 1].declLo # c[i].declLo =>
                  c[i].status = 202 /\ c[i + 1].declLo = c[i].declHi + 1)

(* ------------------------------ token refresh --------------------------- *)
\* the expiry read by a call of ensure_valid_token was unset or had passed
ExpiryPassed(s) == s.form = "None" \/ s.now >= s.at

\* C5, as the code has it: a call of ensure_valid_token issues a refresh if
\* and only if the expiry is unset or has passed AND a refresh token is held,
\* and then exactly one; a call on a credential whose expiry lies in the
\* future issues none; requests of an operation that had to refresh leave
\* only after a refresh on the expiry it read has succeeded.
C5_RefreshIffExpiredAndRefreshable ==
  \A t \in Threads : up[t].seen.done =>
    LET s == up[t].seen
    IN /\ up[t].refreshes = IF ExpiryPassed(s) /\ s.rt THEN 1 ELSE 0
       /\ (up[t].calls # <<>> /\ ExpiryPassed(s) /\ s.rt) =>
            \E i \in DOMAIN refreshSeen :
               refreshSeen[i] = [form |-> s.form, at |-> s.at]

\* the second operation of one caller found the token of the first expired
\* and refreshed once before its request left
C5_Witness ==
  /\ mode = "sequential" /\ opsDone = 2
  /\ up[1].seen.done /\ ExpiryPassed(up[1].seen) /\ up[1].seen.rt
  /\ up[1].seen.form = "datetime" /\ up[1].seen.at > 1
  /\ up[1].refreshes = 1
  /\ up[1].calls # <<>>

\* C5 as stated: a refresh is issued if and only if the expiry has passed
\* (an unset expiry counted as passed)
C5_RefreshIffExpired ==
  \A t \in Threads : up[t].seen.done =>
    (up[t].refreshes = 1 <=> ExpiryPassed(up[t].seen))

\* C6: every request that carries the Authorization header leaves right after
\* a call of ensure_valid_token, and none leaves with a token whose expiry has
\* passed while a refresh token is held (one caller, no concurrency).
C6_EnsureBeforeEveryAuthRequest ==
  mode = "sequential" =>
    \A t \in Threads : \A i \in DOMAIN up[t].calls :
       up[t].calls[i].auth => up[t].calls[i].checked /\ ~up[t].calls[i].stale

\* C7: the check-then-refresh steps of two concurrent uploads never
\* interleave: no two callers are both between their expiry check and the end
\* of their refresh, and no expiry is refreshed twice.
C7_RefreshesSerialized ==
  /\ \A t1, t2 \in Threads :
        (up[t1].pc = "refresh" /\ up[t2].pc = "refresh") => t1 = t2
  /\ \A i, j \in DOMAIN refreshSeen :
        refreshSeen[i] = refreshSeen[j] => i = j

(* ------------------------------- backup() ------------------------------- *)
\* C8: whenever backup() has returned, no connection the manager opened and
\* still refers to is open.
C8_ReleasedOnEveryExit ==
  pc = "done" =>
     /\ (client # "None" => sock.ssh # "open")
     /\ (ftp # "None" => sock[ftp] # "open")

\* the last request of a finished cloud operation was rejected, or its token
\* refresh was (then no request left at all)
Rejected(r) ==
  r.calls = <<>> \/ RaisesForStatus(r.calls[Len(r.calls)].status)

\* C9, as the code has it: backup() never raises: every failure of connect,
\* pre-flight, directory creation, listing or transfer ends in a returned
\* tuple; upload_file and list_folders have no such boundary: a rejected
\* request or token refresh is raised to the caller, and only then.
C9_BackupNeverRaises ==
  /\ ret.state # "raised"
  /\ (pc = "done" => ret.state = "returned")
  /\ \A t \in Threads : up[t].pc = "done" =>
        (up[t].result = "raised" <=> Rejected(up[t]))

\* an exception other than an I/O error left the walk of the SFTP root and
\* came back as a failure tuple
C9_Witness ==
  /\ proto = "SSH" /\ pc = "done"
  /\ ret = Returned(FALSE, <<"Backup error: ", "connection lost">>, 0, 0)
  /\ outcome[0] = "raised"

\* C9 as stated: neither backup() nor a cloud operation ever raises
C9_NothingRaises ==
  /\ ret.state # "raised"
  /\ \A t \in Threads : up[t].result # "raised"

\* backup() returned success = false
Failed == pc = "done" /\ ret.state = "returned" /\ ~ret.success

\* the positions of backup() up to the call of download_directory
BeforeSnapshot ==
  {"start", "connect", "ssh_client_connect", "ssh_open_sftp", "ftps_auth",
   "ftps_login", "ftps_prot_p", "ftp_connect_decide", "plain_connect",
   "plain_login", "ftp_connect_return", "after_connect", "probe", "writable",
   "mkroot"}

FrameOf(d) == {i \in DOMAIN stack : stack[i].dir = d}

\* C11: an exception raised while an entry is processed is absorbed at that
\* entry: a call whose listing succeeded ends only by the return after its
\* last entry (never by an exception, never with entries left), so every
\* entry of a listed directory whose call is over was attempted; and the
\* running totals of every call never decrease.
C11_ItemFailuresAbsorbed ==
  /\ [][\A i \in DOMAIN stack :
          IF i \in DOMAIN stack' /\ stack'[i].dir = stack[i].dir
          THEN stack'[i].tf >= stack[i].tf /\ stack'[i].tb >= stack[i].tb
          ELSE WasListed(stack[i].dir) =>
                 /\ stack[i].items = <<>>
                 /\ outcome'[stack[i].dir] = outcome[stack[i].dir]
                 /\ (ret' = ret \/ ret'.success)]_vars
  /\ [](\A n \in Nodes :
          (WasListed(Parent(n)) /\ FrameOf(Parent(n)) = {}) => outcome[n] # "none")

\* the fetch of the first entry failed, a nested directory raised, and the
\* walk went on to fetch the file after them
C11_Witness ==
  /\ pc = "done"
  /\ outcome[1] = "raised"
  /\ outcome[2] = "fetched_callback_raised"
  /\ ret.file_count = 1

\* C12: when the walk has run to completion (the outermost call returned),
\* backup() returns success = true with the snapshot path and the number and
\* bytes of the files that were fetched, however many entries failed.
C12_CompletedWalkIsSuccess ==
  (pc \in {"finally", "done"} /\ outcome[0] \in {"listed", "listed_by_LIST", "list_failed"}) =>
     /\ ret = Returned(TRUE, <<"backup_dir">>, Cardinality(Fetched), SumSizes(Fetched))

\* every entry of the root failed: success with both counters 0
C12_Witness ==
  /\ pc = "done" /\ ret.success
  /\ outcome[1] = "fetch_failed" /\ outcome[2] = "fetch_failed"
  /\ ret.file_count = 0 /\ ret.total_bytes = 0

\* C13: a listing failure of any kind never raises: no call of
\* download_directory that got as far as listing its directory (its local
\* directory exists) ends by an exception.
C13_ListingFailsSoft ==
  \A d \in 0..NumNodes : d \in madeDirs => outcome[d] # "raised"

(* --------------------------- FTP working directory ---------------------- *)
\* C16: every call of the FTP download_directory leaves the working
\* directory of the session as it found it.  The session starts in Home and
\* only the listing code changes directory, so outside the listing code the
\* working directory is Home.
C16_WorkingDirectoryRestored ==
  (proto = "FTP" /\ pc \in {"dd_enter", "dd_list", "dd_items", "bk_return"}) =>
     ftp_cwd = Home

(* -------------------------------- no retries ---------------------------- *)
\* the requests of a log that carry file bytes
WithBody(calls) == {i \in DOMAIN calls : calls[i].lo < calls[i].hi}

C20_DisconnectIdempotent ==
  /\ ~discRaised
  /\ disconnects > 0 =>
       /\ client = "None" /\ sftp = "None"
       /\ ftp = "None" /\ use_tls = FALSE

\* disconnect() was called twice on an FTP manager; closing the plaintext
\* connection raised, so it is still open
C20_Witness ==
  /\ proto = "FTP" /\ disconnects = 2
  /\ sock.plain = "open"
  /\ ftp = "None" /\ ~use_tls

(* ----------------------------- failed refresh --------------------------- *)
\* the stored tokens; of the expiry the instant, and whether it is set (the
\* expiry check parses a stored ISO string into a datetime, lines 38-39)
StoredTokens == <<access_token, refresh_token, token_expiry.form = "None",
                  token_expiry.at>>

\* C18: when the call to the token endpoint fails, the failure reaches the
\* caller of the operation, the operation has sent no request, and neither
\* this step nor the expiry check before it changed the stored access token,
\* refresh token or expiry.
C18_FailedRefreshLeavesTokens ==
  /\ [][\A t \in Threads : (up[t].pc = "refresh" /\ up'[t].pc = "done") =>
          /\ up'[t].result = "raised"
          /\ up'[t].calls = <<>>
          /\ StoredTokens' = StoredTokens
          /\ token_expiry' = token_expiry]_vars
  /\ [][\A t \in Threads : (up[t].pc = "ensure" /\ up'[t].pc # "ensure") =>
          StoredTokens' = StoredTokens]_vars
  /\ [](\A t \in Threads : up[t].pc = "refresh" => up[t].calls = <<>>)

\* the refresh of an operation failed: the operation raised without a
\* request, the tokens are the ones the manager was given
C18_Witness ==
  /\ up[1].pc = "done" /\ up[1].result = "raised"
  /\ up[1].refreshes = 1 /\ up[1].calls = <<>>
  /\ access_token = 0 /\ refresh_token = 0 /\ issued = 0

(* --------------------------- successful refresh ------------------------- *)
\* C19: a successful refresh stores the access token of the answer and an
\* expiry computed from it; it leaves the refresh token alone, except that
\* OneDrive stores the refresh token of an answer that carries one.  So for
\* the other two providers the refresh token is after any number of refreshes
\* the one the manager was given, and can be used again.
C19_RefreshFrame ==
  /\ [][\A t \in Threads : (up[t].pc = "refresh" /\ up'[t].pc = "request") =>
          /\ access_token' = issued'
          /\ token_expiry'.form = "datetime" /\ token_expiry'.at > now'
          /\ refresh_token' \in {refresh_token} \cup
                                (IF provider = "onedrive" THEN {issued'} ELSE {})
          /\ provider' = provider]_vars
  /\ []((provider \in {"google_drive", "dropbox"} /\ refreshSeen # <<>>) =>
          refresh_token = 0)

\* the Dropbox manager refreshed twice with the refresh token it was given
C19_Witness ==
  /\ provider = "dropbox"
  /\ Len(refreshSeen) = 2
  /\ access_token = 2 /\ refresh_token = 0

(* ---------------------------- snapshot names --------------------------- *)
\* C14: two runs for the same local_backup_path that started more than one
\* second apart have distinct snapshot names.
C14_DistinctNames ==
  \A a \in RunIds : \A b \in RunIds :
    (/\ run[a].name # -1 /\ run[b].name # -1
     /\ run[b].started - run[a].started > TicksPerSecond) =>
       run[a].name # run[b].name

\* C15: under every interleaving of runs, a run writes only into a snapshot
\* directory it created itself.
C15_SnapshotOwnedByOneRun ==
  \A w \in writes : [name |-> w.name, by |-> w.run] \in snapshots

(* ------------------------------- C21 ------------------------------------ *)
\* C21: SSHBackupManager.connect picks the credential by strict priority: every
\* connection it opens carries the key file when a key path is configured and
\* the file exists, and the password otherwise (also when a key path is
\* configured but the file is missing); with neither, connect() returns "No
\* authentication method provided" and no connection was attempted.
C21_AuthPriority ==
  proto = "SSH" =>
    /\ \A i \in 1..Len(wire) :
         /\ wire[i].cmd = "connect"
         /\ (cfg.key /\ cfg.keyfile) => wire[i].via = "key_filename"
         /\ ~(cfg.key /\ cfg.keyfile) => (cfg.password /\ wire[i].via = "password")
    /\ (pc = "after_connect" /\ ~(cfg.key /\ cfg.keyfile) /\ ~cfg.password) =>
         /\ wire = <<>>
         /\ sock.ssh = "none"
         /\ connRet = Ret(FALSE, <<"No authentication method provided">>)
    /\ (pc \in {"ssh_open_sftp", "after_connect"}
          /\ ((cfg.key /\ cfg.keyfile) \/ cfg.password)) => Len(wire) = 1

\* a key path is configured, the file is missing, the password was handed over
C21_Witness ==
  /\ proto = "SSH" /\ pc = "after_connect"
  /\ cfg.key /\ ~cfg.keyfile /\ cfg.password
  /\ wire = <<Step("connect", "password", TRUE)>>
  /\ connRet.ok

(* ------------------------------- C26 ------------------------------------ *)
\* the order of _connect_ftps and of _connect_plain_ftp
FtpsOrder == <<"connect", "auth", "login", "prot_p", "set_pasv">>
PlainOrder == <<"connect", "login", "set_pasv">>
\* the steps of one attempt, in the order taken
StepsVia(via) == SelectSeq(wire, LAMBDA st : st.via = via)
\* the steps follow the given order, each one after a success of the previous
InOrder(steps, order) ==
  /\ Len(steps) <= Len(order)
  /\ \A i \in 1..Len(steps) :
       /\ steps[i].cmd = order[i]
       /\ (i > 1 => steps[i - 1].ok)
\* the text names none of the markers of a server that insists on TLS
NoMandatoryTlsMarker(message) ==
  \A x \in MandatoryTlsMarkers : ~ContainsIgnoringCase(x, message)

\* C26: the FTPS attempt runs connect, AUTH TLS, login, PROT P, passive mode in
\* that order, each only after the previous one succeeded, so its login is
\* sent only after a successful AUTH TLS; over the whole connect() a login is
\* sent on an unencrypted channel only after the TLS attempt failed with a
\* message that names none of the mandatory-TLS markers.
C26_TlsBeforeCredentials ==
  proto = "FTP" =>
    /\ wire = StepsVia("ftps") \o StepsVia("plain")
    /\ InOrder(StepsVia("ftps"), FtpsOrder)
    /\ InOrder(StepsVia("plain"), PlainOrder)
    /\ \A i \in 1..Len(wire) :
         wire[i].cmd = "login" =>
           IF wire[i].via = "ftps"
           THEN \E j \in 1..(i - 1) : wire[j] = Step("auth", "ftps", TRUE)
           ELSE /\ ftpsRet # NoRet /\ ~ftpsRet.ok
                /\ NoMandatoryTlsMarker(ftpsRet.msg)
                /\ \E j \in 1..(i - 1) : wire[j].via = "ftps" /\ ~wire[j].ok

\* AUTH TLS failed without a marker and the login went out in clear text
C26_Witness ==
  /\ proto = "FTP" /\ pc = "after_connect"
  /\ wire = <<Step("connect", "ftps", TRUE), Step("auth", "ftps", FALSE),
              Step("connect", "plain", TRUE), Step("login", "plain", TRUE),
              Step("set_pasv", "plain", TRUE)>>
  /\ connRet.ok /\ ~use_tls

(* ------------------------------- C28 ------------------------------------ *)
RECURSIVE WalkOrder(_)
\* the entries below the given ones in the order a depth-first walk meets them
WalkOrder(todo) ==
  IF todo = <<>> THEN <<>>
  ELSE <<Head(todo)>> \o WalkOrder(ChildSeq(Head(todo)) \o Tail(todo))
\* the place of entry n in the walk of the whole tree
WalkPlace(n) ==
  CHOOSE i \in 1..Len(WalkOrder(ChildSeq(0))) : WalkOrder(ChildSeq(0))[i] = n
RECURSIVE IsUnder(_, _)
\* entry n lies in directory d or below it
IsUnder(n, d) == n # 0 /\ (Parent(n) = d \/ IsUnder(Parent(n), d))
RECURSIVE SumProgress(_)
\* the bytes the callback was told of
SumProgress(log) ==
  IF log = <<>> THEN 0 ELSE Head(log).size + SumProgress(Tail(log))

\* C28: the progress callback is called exactly once for each fetched file and
\* for nothing else (no directory, no failed fetch), in walk order, with the
\* size that was added to total_bytes, after the counters of the directory
\* were updated; a callback that raises leaves its file counted and on disk,
\* and the totals of a successful run are those the callback was told of.
C28_ProgressPerFetchedFile ==
  /\ {progress[i].id : i \in 1..Len(progress)} = Fetched
  /\ \A i, j \in 1..Len(progress) :
       i < j => WalkPlace(progress[i].id) < WalkPlace(progress[j].id)
  /\ \A i \in 1..Len(progress) :
       /\ listed[progress[i].id].kind = "file"
       /\ progress[i].size = listed[progress[i].id].size
       /\ progress[i].total_files =
            Cardinality({j \in 1..i : IsUnder(progress[j].id, Parent(progress[i].id))})
  /\ \A n \in Nodes :
       outcome[n] = "fetched_callback_raised" => localFiles[n] = listed[n].size
  /\ (pc = "done" /\ ret.success) =>
       /\ ret.file_count = Len(progress)
       /\ ret.total_bytes = SumProgress(progress)

\* the callback raised for a file of a subdirectory and was called again for
\* a later file of the directory above
C28_Witness ==
  /\ pc = "done" /\ ret.success
  /\ Len(progress) = 2
  /\ outcome[progress[1].id] = "fetched_callback_raised"
  /\ Parent(progress[1].id) # 0 /\ Parent(progress[2].id) = 0
  /\ progress[2].size = MaxSize /\ progress[2].total_files = 2

(* ------------------------------- C27 ------------------------------------ *)
\* C27: after a successful run the regular files under the snapshot directory
\* are exactly the counted files: every counted file is present and no
\* uncounted file (one whose transfer failed part-way) is.
C27_SnapshotIsExactlyTheCountedFiles ==
  (pc = "done" /\ ret.success) =>
    \A n \in Nodes : (localFiles[n] # -1) <=> (n \in Fetched)

(* ------------------------------- C29 ------------------------------------ *)
\* no directory is listed twice or is on the call stack twice, the call stack
\* is no deeper than the tree, and no '.' or '..' waits to be entered or fetched
C29_EnteredAtMostOnce ==
  /\ \A d \in 0..NumNodes :
       sent[d].mlsd <= 1 /\ sent[d].list <= 1 /\ sent[d].listdir <= 1
  /\ \A i, j \in 1..Len(stack) : i # j => stack[i].dir # stack[j].dir
  /\ Len(stack) <= NumNodes + 1
  /\ \A i \in 1..Len(stack) : \A k \in 1..Len(stack[i].items) :
       stack[i].items[k].name \notin {".", ".."}

\* C29: the recursive walk ends on every finite remote tree under every
\* pattern of failures: every call of download_directory that began returns
\* or raises, each directory is entered at most once, and the entries '.' and
\* '..' of a listing are neither entered nor fetched.
C29_WalkTerminates ==
  /\ []C29_EnteredAtMostOnce
  /\ (stack # <<>>) ~> (stack = <<>>)

\* a walk that ended after a subdirectory was walked, a fetch failed and a
\* listing failed
C29_Witness ==
  /\ pc = "done" /\ stack = <<>> /\ ret.state = "returned"
  /\ WasListed(1) /\ outcome[3] = "fetch_failed"
  /\ outcome[2] = "list_failed"

(* ------------------------------- C22 ------------------------------------ *)
\* the requests of kind k in a log
OfKind(calls, k) == SelectSeq(calls, LAMBDA q : q.kind = k)
\* the number of chunks of C bytes a file of S bytes is cut into
CeilDiv(S, C) == (S + C - 1) \div C

\* C22: a Dropbox session upload of S bytes with chunks of C = 50 MiB that
\* returned sent exactly one start call carrying the first C bytes, exactly
\* ceil(S/C) - 2 append calls of C bytes each, and exactly one finish call
\* carrying the remaining S - (ceil(S/C) - 1) * C bytes (a full chunk when S
\* is a multiple of C).
C22_DropboxCallCounts ==
  \A t \in Threads :
    (DbxLarge(up[t]) /\ up[t].pc = "done" /\ up[t].result = "path_display") =>
      LET c == up[t].calls
          S == up[t].file_size
          C == 50 * 1024 * 1024
          K == CeilDiv(S, C)
      IN /\ Len(c) = K
         /\ OfKind(c, "start") = <<c[1]>>
         /\ c[1].lo = 0 /\ c[1].hi = C
         /\ Len(OfKind(c, "append")) = K - 2
         /\ \A i \in 2..(K - 1) :
              c[i].kind = "append" /\ c[i].hi - c[i].lo = C
         /\ OfKind(c, "finish") = <<c[K]>>
         /\ c[K].hi - c[K].lo = S - (K - 1) * C
         /\ (S % C = 0 => c[K].hi - c[K].lo = C)

\* 220 MiB went up: a start, three appends and a finish with the last 20 MiB
C22_Witness ==
  /\ DbxLarge(up[1]) /\ up[1].file_size = 220 * 1024 * 1024
  /\ up[1].pc = "done" /\ up[1].result = "path_display"
  /\ Len(OfKind(up[1].calls, "append")) = 3
  /\ up[1].calls[5].kind = "finish"
  /\ up[1].calls[5].hi - up[1].calls[5].lo = 20 * 1024 * 1024

(* ------------------------------- C25 ------------------------------------ *)
\* the size up to which a provider's upload_file sends the file in one request
DirectLimit(p) ==
  IF p = "onedrive" THEN 4 * 1024 * 1024 ELSE 150 * 1024 * 1024

\* C25: the upload strategy follows from the file size alone: OneDrive uploads
\* a file of at most 4 MiB (4 MiB included) with one direct PUT and a larger
\* one through an upload session; Dropbox uploads a file of at most 150 MiB
\* with one direct call and a larger one through a cursor session.  A direct
\* upload sends exactly one request, carrying the whole file.
C25_StrategyBySize ==
  \A t \in Threads :
    (provider \in {"onedrive", "dropbox"} /\ up[t].op = "upload_file"
       /\ up[t].calls # <<>>) =>
      LET c == up[t].calls
          S == up[t].file_size
      IN IF S <= DirectLimit(provider)
         THEN /\ c = <<c[1]>>
              /\ c[1].kind = "direct" /\ c[1].lo = 0 /\ c[1].hi = S
              /\ up[t].pc = "done"
         ELSE /\ c[1].kind = (IF provider = "onedrive" THEN "session" ELSE "start")
              /\ \A i \in DOMAIN c : c[i].kind # "direct"
              /\ \A i \in 2..Len(c) :
                   c[i].kind \in (IF provider = "onedrive" THEN {"chunk"}
                                  ELSE {"append", "finish"})

\* a OneDrive file of exactly 4 MiB went up with one direct PUT
C25_Witness ==
  /\ provider = "onedrive" /\ up[1].op = "upload_file"
  /\ up[1].file_size = 4 * 1024 * 1024
  /\ up[1].pc = "done" /\ up[1].result = "id"
  /\ Len(up[1].calls) = 1 /\ up[1].calls[1].kind = "direct"

(* ------------------------------- C30 ------------------------------------ *)
\* C30: both large-file upload loops end under every sequence of server
\* answers: every turn of a loop that does not leave the loop brings it nearer
\* to its end, by sending bytes of the file that were not sent before or by
\* moving the offset forward.
C30_EveryTurnAdvances ==
  [][\A t \in Threads :
       (up[t].pc \in {"od_chunk", "dbx_chunk"} /\ up'[t].pc = up[t].pc
          /\ up'[t].calls # up[t].calls) =>
         (up'[t].offset > up[t].offset \/ up'[t].fpos > up[t].fpos)]_vars

(* ------------------------------- C24 ------------------------------------ *)
\* the two texts are the same up to the case of their letters
SameIgnoringCase(a, b) ==
  Len(a) = Len(b) /\ \A i \in 1..Len(a) : LowerChar(a[i]) = LowerChar(b[i])

\* what get_backup_manager is to give for a tag
BackupVariant(tag) ==
  IF SameIgnoringCase(tag, <<"s","s","h">>) THEN "SSHBackupManager"
  ELSE IF SameIgnoringCase(tag, <<"f","t","p">>) THEN "FTPBackupManager"
  ELSE "ValueError"

\* what get_cloud_manager is to give for a tag
CloudVariant(tag) ==
  IF tag = <<"g","o","o","g","l","e","_","d","r","i","v","e">> THEN "GoogleDriveManager"
  ELSE IF tag = <<"o","n","e","d","r","i","v","e">> THEN "OneDriveManager"
  ELSE IF tag = <<"d","r","o","p","b","o","x">> THEN "DropboxManager"
  ELSE "ValueError"

\* C24: construction by tag is a pure mapping: get_backup_manager gives the
\* SFTP variant for the tag SSH and the FTP variant for the tag FTP, in any
\* case of the letters, and raises ValueError for every other tag;
\* get_cloud_manager gives the variant of each of the three provider tags and
\* raises ValueError for every other tag; a tag rejected in start_backup or
\* run_scheduled_backup ends the run with a 'failed' history row and no
\* manager.
C24_ConstructionByTag ==
  /\ (made.entry = "get_backup_manager" /\ made.pc = "done") =>
       made.result = BackupVariant(made.tag)
  /\ (made.entry = "get_cloud_manager" /\ made.pc = "done") =>
       made.result = CloudVariant(made.tag)
  /\ (made.entry \in {"start_backup", "run_scheduled_backup"}
        /\ made.result # "none") =>
       /\ made.result = BackupVariant(made.tag)
       /\ made.result = "ValueError" => (made.pc = "done" /\ made.history = "failed")

\* the scheduler ran a site whose tag is not a protocol: the row says 'failed'
C24_Witness ==
  /\ made.entry = "run_scheduled_backup" /\ made.tag = <<"H","T","T","P">>
  /\ made.pc = "done" /\ made.result = "ValueError"
  /\ made.history = "failed"

(* ------------------------------- C23 ------------------------------------ *)
\* C23: archiving and upload never delete or change the local snapshot:
\* whatever zip_directory did (returned, raised part-way) and however an
\* upload_file of any provider ended (returned, rejected by the provider in
\* mid-session, token refresh failed), every file of the snapshot is still
\* there as the backup wrote it.
C23_SnapshotKept ==
  arch.pc # "idle" => \A f \in SnapFiles : arch.files[f] = "fetched"

\* the archive was made and a session upload was rejected after its first
\* request: the snapshot is as it was
C23_Witness ==
  /\ arch.pc = "returned" /\ arch.zip = "complete"
  /\ up[1].op = "upload_file" /\ up[1].result = "raised"
  /\ Len(up[1].calls) >= 2
  /\ \A f \in SnapFiles : arch.files[f] = "fetched"

(* ----------------------- large uploads return an id --------------------- *)
\* the requests of a log that carry file bytes, in call order
BodyCalls(calls) ==
  SelectSeq(calls, LAMBDA q : q.kind \in {"chunk", "start", "append", "finish"})

\* the bodies of a log tile [0, size): each starts where the one before ended
Tiles(c, size) ==
  /\ c # <<>>
  /\ c[1].lo = 0
  /\ c[Len(c)].hi = size
  /\ \A i \in DOMAIN c : i < Len(c) => c[i + 1].lo = c[i].hi

\* C31: a large upload that returns normally returns the identifier of the
\* committed object: the OneDrive session upload returns an id, and only after
\* every byte of [0, file_size) was sent and the server answered 200 or 201;
\* the Dropbox session upload returns the committed path after the finish
\* request that carried the last bytes.
C31_LargeUploadReturnsId ==
  \A t \in Threads :
    (up[t].pc = "done" /\ up[t].result # "raised") =>
      /\ OdLarge(up[t]) =>
           LET c == BodyCalls(up[t].calls)
           IN /\ up[t].result = "id"
              /\ Tiles(c, up[t].file_size)
              /\ c[Len(c)].status \in {200, 201}
      /\ DbxLarge(up[t]) =>
           LET c == BodyCalls(up[t].calls)
           IN /\ up[t].result = "path_display"
              /\ Tiles(c, up[t].file_size)
              /\ c[Len(c)].kind = "finish"

\* the Dropbox half of C31 alone
C31_DropboxHalf ==
  \A t \in Threads :
    (up[t].pc = "done" /\ up[t].result # "raised" /\ DbxLarge(up[t])) =>
      LET c == BodyCalls(up[t].calls)
      IN /\ up[t].result = "path_display"
         /\ Tiles(c, up[t].file_size)
         /\ c[Len(c)].kind = "finish"

\* an id returned by the OneDrive session upload while bytes are unsent
C31_IdBeforeAllSent ==
  \A t \in Threads :
    (up[t].pc = "done" /\ OdLarge(up[t]) /\ up[t].result = "id") =>
      Tiles(BodyCalls(up[t].calls), up[t].file_size)

(* -------------------- connections after a failed connect ---------------- *)
\* the connections of the manager that are open
OpenSocks == {k \in {"ssh", "ftps", "plain"} : sock[k] = "open"}

\* C32: a manager holds no open connection when connect() has returned
\* (False, message), in whichever step it failed, and at most one control
\* connection is open per manager at any time: the one of a failed TLS attempt
\* is closed before the plaintext attempt opens its own.
C32_NoOpenConnectionAfterFailure ==
  /\ (pc = "after_connect" /\ ~connRet.ok) => OpenSocks = {}
  /\ Cardinality(OpenSocks) <= 1

\* the fallback alone: never two control connections open at once
C32_OneControlConnection == Cardinality(OpenSocks) <= 1

\* connect() alone: nothing open once it has returned (False, message)
C32_ClosedAfterFailedConnect ==
  (pc = "after_connect" /\ ~connRet.ok) => OpenSocks = {}

(* ------------------------------- use_tls -------------------------------- *)
\* C37: use_tls is true only while the manager's current connection completed
\* the TLS upgrade, the login and PROT P: it is false while the manager has no
\* connection object (initially and after disconnect()), after a connect()
\* that returned a plaintext connection, and after every connect() that
\* returned (False, message), also one called again on a manager that was
\* connected over TLS.
C37_UseTlsOnlyOnTlsSession ==
  proto = "FTP" =>
    /\ ftp = "None" => ~use_tls
    /\ pc = "after_connect" =>
         (use_tls <=> (connRet.ok /\ ftp = "ftps"))

\* C37 without the repeated call: one connect() on a fresh manager
C37_FirstConnect ==
  (proto = "FTP" /\ connects <= 1) =>
    /\ ftp = "None" => ~use_tls
    /\ pc = "after_connect" =>
         (use_tls <=> (connRet.ok /\ ftp = "ftps"))

OtherJobs(js, site) == {j \in js : j.id # job_id(site)}

\* the step is a call of a function of scheduler.py
IsCall == called'.n # called.n

\* the job of every site is what the most recent add_backup_job or
\* remove_backup_job made it, with the first run at the given distance from
\* the add
JobsAsLastCall(shift) ==
  /\ \A j1, j2 \in jobs : j1.id = j2.id => j1 = j2
  /\ \A s \in SiteIds :
       LET l == called.last[s]
       IN /\ l.op = "add" =>
               /\ HasJob(jobs, job_id(s))
               /\ JobOf(jobs, job_id(s)).args = s
               /\ JobOf(jobs, job_id(s)).interval = l.interval
               /\ JobOf(jobs, job_id(s)).next_run_time
                    = RetTime(l.at + l.interval + shift)
          /\ l.op = "remove" => ~HasJob(jobs, job_id(s))

\* remove_backup_job returns True exactly when there was a job, which is then
\* gone, and no call changes the job of another site
RemoveAndOthers ==
  (IsCall /\ scheduler.init) =>
     /\ called'.op = "remove_backup_job" =>
          /\ called'.ret = RetBool(HasJob(jobs, job_id(called'.site)))
          /\ ~HasJob(jobs', job_id(called'.site))
     /\ called'.site \in SiteIds =>
          OtherJobs(jobs', called'.site) = OtherJobs(jobs, called'.site)

\* C35: after any sequence of add_backup_job and remove_backup_job on an
\* initialised scheduler there is at most one job per site; its interval is
\* that of the most recent add_backup_job of the site and its first run is one
\* full interval after that add; there is no job for a site whose most recent
\* call was remove_backup_job; remove_backup_job returns True exactly when a
\* job existed and was removed; a call for one site never changes the job of
\* another.
C35_JobPerSite == [](JobsAsLastCall(0)) /\ [][RemoveAndOthers]_vars

\* C35 where the process's local time zone is the scheduler's
C35_InSchedulerZone ==
  [](tzlocal = IstanbulOffset => JobsAsLastCall(0)) /\ [][RemoveAndOthers]_vars

\* C35 where it is UTC: the first run is three hours early
C35_InUtc ==
  [](tzlocal = 0 => JobsAsLastCall(0 - IstanbulOffset))

\* C36: while the scheduler is not initialised add_backup_job,
\* remove_backup_job, pause_backup_job and resume_backup_job return False and
\* get_next_run_time returns None, none raises and none changes the scheduler
\* or a job; start_scheduler calls start() exactly when the scheduler is
\* initialised and not running, stop_scheduler calls shutdown() exactly when
\* it is running, and otherwise neither changes anything.
C36_Step ==
  IsCall =>
    /\ (~scheduler.init /\ called'.site \in SiteIds) =>
          /\ called'.ret = IF called'.op = "get_next_run_time"
                           THEN RetNone ELSE RetBool(FALSE)
          /\ ~called'.raised
          /\ called'.lib = "none"
          /\ UNCHANGED <<scheduler, jobs>>
    /\ called'.op = "start_scheduler" =>
          /\ called'.lib = "start" <=> (scheduler.init /\ ~scheduler.running)
          /\ ~called'.raised
          /\ scheduler' = IF called'.lib = "start"
                          THEN [scheduler EXCEPT !.running = TRUE] ELSE scheduler
          /\ jobs' = jobs
    /\ called'.op = "stop_scheduler" =>
          /\ called'.lib = "shutdown" <=> (scheduler.init /\ scheduler.running)
          /\ ~called'.raised
          /\ scheduler' = IF called'.lib = "shutdown"
                          THEN [scheduler EXCEPT !.running = FALSE] ELSE scheduler
          /\ jobs' = jobs
C36_UninitialisedAndStartStop == [][C36_Step]_vars

\* start_scheduler was called on a running scheduler and did nothing
C36_Witness ==
  /\ called.op = "start_scheduler" /\ called.lib = "none"
  /\ scheduler.init /\ scheduler.running

\* a function was called before init_scheduler
C36_WitnessUninitialised ==
  /\ ~scheduler.init
  /\ called.op = "resume_backup_job" /\ called.ret = RetBool(FALSE)

C34_WitnessInactive ==
  /\ fired.pc = "done" /\ fired.readAs = "inactive"
  /\ HasJob(jobs, job_id(fired.site))

=============================================================================
